---- MODULE Spec2Model ----
(***************************************************************************)
(* Model of the Kraken WebSocket client: the per-channel subscription      *)
(* registry (ChannelManager), the resilient transport that replays it      *)
(* (createWebSocketClient) and the order-book engine (OrderbookManager).   *)
(***************************************************************************)
EXTENDS Integers, Sequences, FiniteSets, TLC

(***************************************************************************)
(* Bounds of the model.                                                    *)
(***************************************************************************)
\* largest number of Subscription Entries held by all registries together
MaxEntries == 2
\* largest number of session tokens the REST layer hands out in one run
MaxTokens == 2
\* the depth an OrderbookManager is constructed with
Depth == 3

(***************************************************************************)
(* JavaScript values.  A parameter object is the sequence of its           *)
(* properties in insertion order; a property value is a scalar or an       *)
(* array of strings.                                                       *)
(***************************************************************************)
Scalar(v) == [isArray |-> FALSE, items |-> <<v>>]
Array(a) == [isArray |-> TRUE, items |-> a]
Prop(n, v) == [name |-> n, value |-> v]

RECURSIVE SelectProps(_, _)
\* the properties of obj whose name is not in the set names, in order
SelectProps(obj, names) ==
  IF obj = <<>> THEN <<>>
  ELSE IF Head(obj).name \in names THEN SelectProps(Tail(obj), names)
       ELSE <<Head(obj)>> \o SelectProps(Tail(obj), names)

HasProp(obj, n) == \E i \in 1..Len(obj) : obj[i].name = n
GetProp(obj, n) == obj[CHOOSE i \in 1..Len(obj) : obj[i].name = n].value

\* JSON.stringify keeps the insertion order of the properties: two objects
\* serialise to the same string exactly when they are the same sequence.
JSONstringify(obj) == obj
JSONparse(str) == str

(***************************************************************************)
(* A JavaScript Set of strings: insertion ordered, no duplicates.          *)
(***************************************************************************)
SetHas(s, x) == \E i \in 1..Len(s) : s[i] = x
SetAdd(s, x) == IF SetHas(s, x) THEN s ELSE Append(s, x)
SetDelete(s, x) == SelectSeq(s, LAMBDA y : y # x)

RECURSIVE SetAddAllSkipLast(_, _)
\* symbolArray.forEach that stops one element early
SetAddAllSkipLast(s, arr) ==
  IF Len(arr) <= 1 THEN s
  ELSE SetAddAllSkipLast(SetAdd(s, Head(arr)), Tail(arr))

RECURSIVE SetAddAll(_, _)
SetAddAll(s, arr) ==
  IF arr = <<>> THEN s ELSE SetAddAll(SetAdd(s, Head(arr)), Tail(arr))

RECURSIVE SetDeleteAll(_, _)
SetDeleteAll(s, arr) ==
  IF arr = <<>> THEN s ELSE SetDeleteAll(SetDelete(s, Head(arr)), Tail(arr))

Range(s) == {s[i] : i \in 1..Len(s)}

(***************************************************************************)
(* Channels.                                                               *)
(***************************************************************************)
privateSubscriptionChannels == {"executions"}
publicSubscriptionChannels == {"book", "ticker"}
\* the order in which resentSubscribe visits the channels
ResubscribeOrder == <<"book", "ticker", "executions">>
Channels == publicSubscriptionChannels \cup privateSubscriptionChannels

Symbols == {"BTC/USD", "ETH/USD"}

Depth10 == Prop("depth", Scalar("10"))
SnapshotTrue == Prop("snapshot", Scalar("true"))
CallerToken == Prop("token", Scalar("callerToken"))

\* the params objects a caller passes to the book channel: the symbol is a
\* string or an array; the options come in either order
BookParams ==
  {s \o o :
     s \in {<<Prop("symbol", Scalar("BTC/USD"))>>,
            <<Prop("symbol", Array(<<"BTC/USD">>))>>,
            <<Prop("symbol", Array(<<"ETH/USD", "BTC/USD">>))>>,
            <<Prop("symbol", Array(<<"ETH/USD", "ETH/USD">>))>>},
     o \in {<<Depth10, SnapshotTrue>>, <<SnapshotTrue, Depth10>>}}

TriggerBbo == Prop("event_trigger", Scalar("bbo"))

TickerParams == {<<Prop("symbol", Array(<<"ETH/USD">>))>>}

\* the executions channel has no symbols; a caller may pass its own token
ExecutionsParams == {<<>>, <<CallerToken>>}

\* the params objects of the subscribe calls of the model
SubscribeParams(channel) ==
  CASE channel = "book" -> BookParams
    [] channel = "ticker" -> TickerParams
    [] channel = "executions" -> ExecutionsParams

\* the params objects of the unsubscribe calls: those of subscribe, and on
\* the ticker channel one whose options no subscribe call passes
UnsubscribeParams(channel) ==
  IF channel = "ticker"
  THEN TickerParams
         \cup {<<Prop("symbol", Array(<<"ETH/USD">>)), TriggerBbo>>}
  ELSE SubscribeParams(channel)

TokenNames == <<"token1", "token2", "token3", "token4">>

VARIABLES
  subscriptionKeys,    \* channel -> (subscription key -> Set of symbols)
  keysDefined,         \* channels whose #subscriptionKeys is not undefined
  readyState,          \* 0 connecting, 1 open, 3 closed
  wsInfo,              \* the info record of the transport
  isWebSocketPrivate,  \* the client was created with authentication
  tokensIssued,        \* number of tokens handed out by getWebsocketsToken
  sent,                \* messages handed to webSocket.send by the last step
  lastOp,              \* the last operation and how it ended
  listening,           \* channels whose manager has its listeners attached
  published,           \* events the ChannelManagers emitted in the last step
  depth,               \* OrderbookManager.#depth
  orderbook,           \* OrderbookManager.#orderbook
  instrument,          \* OrderbookManager.#instrument
  isActive,            \* OrderbookManager.#isActive
  minModifiedIndex,    \* OrderbookManager.#minModifiedIndex, -1 if undefined
  connected,           \* the manager's transport is open
  emitted,             \* 'orderbook' events emitted by the last step
  refreshed,           \* calls of webSocketClient.refresh() in the last step
  lastMsg,             \* the last message or event the manager handled
  resync,              \* history: where the manager is in a resynchronisation
  sinceOpen,           \* history: the messages received since the last 'open'
  revision,            \* which of the two revisions of the fan-out is built
  orderbookManagers,   \* OrderbookSubscriptionManager.#orderbookManagers
  fanoutDepth,         \* OrderbookSubscriptionManager.#depth
  engines,             \* the OrderbookManagers created, in creation order
  fanoutEmitted,       \* 'orderbook' events the fan-out emitted, last step
  lastFanout,          \* the last call or upstream event of the fan-out
  requestsCallbacks,   \* req_id -> the promise whose callbacks the map holds
  promises,            \* the promises request() has returned, in call order
  requestInfo,         \* wsInfo of the requesting client is not undefined
  lastRequestEvent,    \* the last call, message or transport event
  apiKey,              \* the apiKey a BaseWrapper was constructed with
  lastNonce,           \* lastNonce of the wrapper's nonce generator
  counter,             \* counter of the wrapper's nonce generator
  nonces,              \* the nonces the generator has returned, in order
  axiosCalls,          \* the number of requests handed to axios
  lastRest,            \* the last call of the wrapper and how it ended
  checksumAsks,        \* the asks given to calculateChecksum
  checksumBids,        \* the bids given to calculateChecksum
  checksumPrecision,   \* <<pricePrecision, qtyPrecision>> given to it
  checksumValue,       \* what calculateChecksum returned for them
  checksumEdits        \* the number of changes made to the lists

registryVars == <<subscriptionKeys, keysDefined, readyState, wsInfo,
                  isWebSocketPrivate, tokensIssued, sent, lastOp, listening,
                  published>>

managerVars == <<depth, orderbook, instrument, isActive, minModifiedIndex,
                 connected, emitted, refreshed, lastMsg, resync, sinceOpen>>

fanoutVars == <<revision, orderbookManagers, fanoutDepth, engines,
                fanoutEmitted, lastFanout>>

requestVars == <<requestsCallbacks, promises, requestInfo, lastRequestEvent>>

restVars == <<apiKey, lastNonce, counter, nonces, axiosCalls, lastRest>>

checksumVars == <<checksumAsks, checksumBids, checksumPrecision, checksumValue,
                  checksumEdits>>

vars == <<subscriptionKeys, keysDefined, readyState, wsInfo,
          isWebSocketPrivate, tokensIssued, sent, lastOp, listening,
          published, depth, orderbook,
          instrument, isActive, minModifiedIndex, connected, emitted,
          refreshed, lastMsg, resync, sinceOpen, revision, orderbookManagers,
          fanoutDepth, engines, fanoutEmitted, lastFanout,
          requestsCallbacks, promises, requestInfo, lastRequestEvent,
          apiKey, lastNonce, counter, nonces, axiosCalls, lastRest,
          checksumAsks, checksumBids, checksumPrecision, checksumValue,
          checksumEdits>>

\* deleted: the number of Subscription Entries the operation removed
Op(op, channel, params, error, wasOpen, deleted) ==
  [op |-> op, channel |-> channel, params |-> params, error |-> error,
   wasOpen |-> wasOpen, deleted |-> deleted]

NumEntries ==
  LET RECURSIVE Sum(_)
      Sum(cs) == IF cs = {} THEN 0
                 ELSE LET c == CHOOSE x \in cs : TRUE
                      IN Cardinality(DOMAIN subscriptionKeys[c]) + Sum(cs \ {c})
  IN Sum(Channels)

(***************************************************************************)
(* ChannelManager                                                          *)
(***************************************************************************)
\* const { token, symbol: symbolArray = [], ...subscriptionObject } = params
symbolArrayOf(params) ==
  IF HasProp(params, "symbol") THEN GetProp(params, "symbol") ELSE Array(<<>>)

subscriptionObjectOf(params) == SelectProps(params, {"token", "symbol"})

\* a #validateSymbol that accepts everything
validateSymbolNeverThrows(symbol) == FALSE

\* #validateSymbol: TRUE when it throws
validateSymbolThrows(symbol) == ~symbol.isArray

\* the registry of one channel after subscribe(params)
subscribeKeys(keys, params) ==
  LET symbolArray == symbolArrayOf(params).items
      subscriptionKey == JSONstringify(subscriptionObjectOf(params))
      old == IF subscriptionKey \in DOMAIN keys THEN keys[subscriptionKey]
             ELSE <<>>
  IN [k \in DOMAIN keys \cup {subscriptionKey} |->
        IF k = subscriptionKey THEN SetAddAll(old, symbolArray) ELSE keys[k]]

\* the registered key matches the unsubscribe object once snapshot is dropped
unsubscribeMatches(subscriptionKey, params) ==
  JSONstringify(SelectProps(JSONparse(subscriptionKey), {"snapshot"}))
    = JSONstringify(SelectProps(subscriptionObjectOf(params), {"snapshot"}))

\* an unsubscribe that leaves the emptied entries in the registry
unsubscribeKeysKeepEmpty(keys, params) ==
  LET symbolArray == symbolArrayOf(params).items
  IN [k \in DOMAIN keys |->
        IF unsubscribeMatches(k, params)
        THEN SetDeleteAll(keys[k], symbolArray) ELSE keys[k]]

\* the registry of one channel after unsubscribe(params)
unsubscribeKeys(keys, params) ==
  LET symbolArray == symbolArrayOf(params).items
      left(k) == IF unsubscribeMatches(k, params)
                 THEN SetDeleteAll(keys[k], symbolArray) ELSE keys[k]
      kept == {k \in DOMAIN keys :
                 ~(unsubscribeMatches(k, params) /\ Len(left(k)) = 0)}
  IN [k \in kept |-> left(k)]

\* { method, params: { ...params, channel } }
Subscription(method, channel, params) ==
  [method |-> method, channel |-> channel, params |-> params]

\* a token assignment that lets a token passed by the caller win
SetTokenKeepCaller(params, value) ==
  IF HasProp(params, "token") THEN params
  ELSE Append(params, Prop("token", Scalar(value)))

\* params.token = value (assignment keeps the position of an own property)
SetToken(params, value) ==
  IF HasProp(params, "token")
  THEN [i \in 1..Len(params) |->
          IF params[i].name = "token" THEN Prop("token", Scalar(value))
          ELSE params[i]]
  ELSE Append(params, Prop("token", Scalar(value)))

\* a sendSubscribe without the readyState check
sendSubscribeAnyState(subscription, state, info) ==
  IF subscription.channel \in privateSubscriptionChannels
  THEN <<[subscription EXCEPT
            !.params = SetToken(subscription.params, info.token)]>>
  ELSE <<subscription>>

\* sendSubscribe: the messages handed to the transport (none unless open)
sendSubscribe(subscription, state, info) ==
  IF state = 1
  THEN IF subscription.channel \in privateSubscriptionChannels
       THEN <<[subscription EXCEPT
                 !.params = SetToken(subscription.params, info.token)]>>
       ELSE <<subscription>>
  ELSE <<>>

\* the keys of a registry in the order Object.entries visits them
RECURSIVE KeyOrder(_)
KeyOrder(ks) ==
  IF ks = {} THEN <<>>
  ELSE LET k == CHOOSE x \in ks : TRUE IN <<k>> \o KeyOrder(ks \ {k})

\* a replay that sends the stored key without the entry's symbols
resubscribeParamsNoSymbols(subscriptionKey, symbolsSet) ==
  JSONparse(subscriptionKey)

\* the params sendSubscribeToResubscribe builds for one entry
resubscribeParams(subscriptionKey, symbolsSet) ==
  IF Len(symbolsSet) > 0
  THEN Append(JSONparse(subscriptionKey), Prop("symbol", Array(symbolsSet)))
  ELSE JSONparse(subscriptionKey)

sendSubscribeToResubscribe(channel, keys, defined, state, info) ==
  LET order == KeyOrder(DOMAIN keys)
      RECURSIVE Each(_)
      Each(i) ==
        IF i > Len(order) THEN <<>>
        ELSE sendSubscribe(
               Subscription("subscribe", channel,
                            resubscribeParams(order[i], keys[order[i]])),
               state, info) \o Each(i + 1)
  IN IF ~defined THEN <<>> ELSE Each(1)

\* resentSubscribe: every channel in turn
resentSubscribe(allKeys, defined, state, info) ==
  LET RECURSIVE Each(_)
      Each(i) ==
        IF i > Len(ResubscribeOrder) THEN <<>>
        ELSE LET c == ResubscribeOrder[i]
             IN sendSubscribeToResubscribe(c, allKeys[c], c \in defined,
                                           state, info) \o Each(i + 1)
  IN Each(1)

(***************************************************************************)
(* Initial state: the client as returned by createWebSocketClient.         *)
(***************************************************************************)
ClientInit(private) ==
  /\ subscriptionKeys = [c \in Channels |-> <<>>]
  /\ keysDefined = {}
  /\ readyState = 3
  /\ wsInfo = [defined |-> FALSE, token |-> "undefined"]
  /\ isWebSocketPrivate \in private
  /\ tokensIssued = 0
  /\ sent = <<>>
  /\ lastOp = Op("init", "", <<>>, "none", FALSE, 0)
  /\ listening = {}
  /\ published = <<>>

(***************************************************************************)
(* ChannelManager.subscribe(params)                                        *)
(***************************************************************************)
\* the listeners for 'subscribe', 'unsubscribe' and 'message' are attached
\* if #subscriptionKeys is undefined
attachListeners(attached, defined, channel) ==
  IF channel \notin defined THEN attached \cup {channel} ELSE attached

Subscribe(channel, params) ==
  IF validateSymbolThrows(symbolArrayOf(params))
  THEN /\ lastOp' = Op("subscribe", channel, params, "Error", readyState = 1, 0)
       /\ sent' = <<>>
       /\ published' = <<>>
       /\ UNCHANGED <<subscriptionKeys, keysDefined, readyState, wsInfo,
                      isWebSocketPrivate, tokensIssued, listening>>
  ELSE /\ \/ JSONstringify(subscriptionObjectOf(params))
               \in DOMAIN subscriptionKeys[channel]
          \/ NumEntries < MaxEntries
       /\ keysDefined' = keysDefined \cup {channel}
       /\ listening' = attachListeners(listening, keysDefined, channel)
       /\ published' = <<>>
       /\ subscriptionKeys' =
            [subscriptionKeys EXCEPT
               ![channel] = subscribeKeys(subscriptionKeys[channel], params)]
       /\ sent' = sendSubscribe(Subscription("subscribe", channel, params),
                                readyState, wsInfo)
       /\ lastOp' = Op("subscribe", channel, params, "none", readyState = 1, 0)
       /\ UNCHANGED <<readyState, wsInfo, isWebSocketPrivate, tokensIssued>>

(***************************************************************************)
(* ChannelManager.unsubscribe(params)                                      *)
(***************************************************************************)
Unsubscribe(channel, params) ==
  IF channel \notin keysDefined
  THEN \* Object.keys(undefined) throws a TypeError
       /\ lastOp' = Op("unsubscribe", channel, params, "TypeError",
                       readyState = 1, 0)
       /\ sent' = <<>>
       /\ published' = <<>>
       /\ UNCHANGED <<subscriptionKeys, keysDefined, readyState, wsInfo,
                      isWebSocketPrivate, tokensIssued, listening>>
  ELSE /\ subscriptionKeys' =
            [subscriptionKeys EXCEPT
               ![channel] = unsubscribeKeys(subscriptionKeys[channel], params)]
       /\ sent' = sendSubscribe(Subscription("unsubscribe", channel, params),
                                readyState, wsInfo)
       /\ lastOp' = Op("unsubscribe", channel, params, "none", readyState = 1,
                       Cardinality(DOMAIN subscriptionKeys[channel])
                         - Cardinality(DOMAIN subscriptionKeys'[channel]))
       /\ published' = <<>>
       /\ UNCHANGED <<keysDefined, readyState, wsInfo, isWebSocketPrivate,
                      tokensIssued, listening>>

(***************************************************************************)
(* Transport                                                               *)
(***************************************************************************)
\* createWebSocket: fetch a token when private, then start the handshake
CreateWebSocket ==
  /\ readyState = 3
  /\ IF isWebSocketPrivate
     THEN /\ tokensIssued < MaxTokens
          /\ tokensIssued' = tokensIssued + 1
          /\ wsInfo' = [defined |-> TRUE, token |-> TokenNames[tokensIssued + 1]]
     ELSE /\ wsInfo' = [defined |-> TRUE, token |-> "undefined"]
          /\ UNCHANGED tokensIssued
  /\ readyState' = 0
  /\ sent' = <<>>
  /\ lastOp' = Op("createWebSocket", "", <<>>, "none", FALSE, 0)
  /\ published' = <<>>
  /\ UNCHANGED <<subscriptionKeys, keysDefined, isWebSocketPrivate, listening>>

\* webSocket.on('open'): replay the desired subscriptions
OnOpen ==
  /\ readyState = 0
  /\ readyState' = 1
  /\ sent' = resentSubscribe(subscriptionKeys, keysDefined, 1, wsInfo)
  /\ lastOp' = Op("open", "", <<>>, "none", TRUE, 0)
  /\ published' = <<>>
  /\ UNCHANGED <<subscriptionKeys, keysDefined, wsInfo, isWebSocketPrivate,
                 tokensIssued, listening>>

\* webSocket.on('close')
OnClose ==
  /\ readyState \in {0, 1}
  /\ readyState' = 3
  /\ wsInfo' = [defined |-> TRUE, token |-> "undefined"]
  /\ sent' = <<>>
  /\ lastOp' = Op("close", "", <<>>, "none", readyState = 1, 0)
  /\ published' = <<>>
  /\ UNCHANGED <<subscriptionKeys, keysDefined, isWebSocketPrivate,
                 tokensIssued, listening>>

(***************************************************************************)
(* Inbound frames: the 'message' handler of the client and the listeners   *)
(* of the ChannelManagers.                                                  *)
(***************************************************************************)
Undefined == "undefined"

\* a frame that JSON.parse rejects
UnparsableFrame ==
  [parsable |-> FALSE, channel |-> Undefined, method |-> Undefined,
   type |-> Undefined, result |-> Undefined]

\* a data message of a channel
DataFrame(channel, type) ==
  [parsable |-> TRUE, channel |-> channel, method |-> Undefined,
   type |-> type, result |-> Undefined]

\* the acknowledgement of a subscribe or unsubscribe request: the channel
\* it names is a field of the message or of its result
AckFrame(method, channel, topLevel) ==
  [parsable |-> TRUE, channel |-> IF topLevel THEN channel ELSE Undefined,
   method |-> method, type |-> Undefined,
   result |-> IF topLevel THEN Undefined ELSE channel]

Frames ==
  {UnparsableFrame}
    \cup {DataFrame(c, t) : c \in Channels, t \in {"snapshot", "update"}}
    \cup {AckFrame(m, c, top) : m \in {"subscribe", "unsubscribe"},
                                c \in Channels, top \in BOOLEAN}

\* an event that the ChannelManager of a channel emits
Published(channel, event) == [manager |-> channel, event |-> event]

\* #onSubscribe
onSubscribe(channel, data) ==
  IF data.channel = channel THEN <<Published(channel, "subscribe")>> ELSE <<>>

\* #onUnsubscribe: what it emits; it has taken the three listeners off first
onUnsubscribe(channel, data) ==
  IF data.channel = channel THEN <<Published(channel, "unsubscribe")>>
  ELSE <<>>

\* an #onMessage that emits the messages of every channel
onMessageAnyChannel(channel, data) ==
  IF data.channel # Undefined THEN <<Published(channel, data.type)>> ELSE <<>>

\* #onMessage
onMessage(channel, data) ==
  IF data.channel = channel THEN <<Published(channel, data.type)>> ELSE <<>>

RECURSIVE CallListeners(_, _, _, _)
\* the listeners of one event, called for the channels of a list that are
\* attached; kind names the listener
CallListeners(order, attached, kind, data) ==
  IF order = <<>> THEN <<>>
  ELSE (IF Head(order) \notin attached THEN <<>>
        ELSE CASE kind = "subscribe" -> onSubscribe(Head(order), data)
               [] kind = "unsubscribe" -> onUnsubscribe(Head(order), data)
               [] OTHER -> onMessage(Head(order), data))
         \o CallListeners(Tail(order), attached, kind, data)

\* webSocket.on('message') of the client, which runs first, and the
\* #onMessage listeners of the ChannelManagers; JSON.parse throws on a frame
\* it cannot parse, and nothing catches it
OnMessage(data) ==
  /\ readyState = 1
  /\ sent' = <<>>
  /\ IF ~data.parsable
     THEN /\ lastOp' = Op("message", "", <<>>, "SyntaxError", TRUE, 0)
          /\ published' = <<>>
          /\ UNCHANGED listening
     ELSE LET isAck == data.method \in {"pong", "subscribe", "unsubscribe"}
              event == IF data.channel # Undefined THEN data.channel
                       ELSE data.method
              fromEvent ==
                IF isAck /\ event \in {"subscribe", "unsubscribe"}
                THEN CallListeners(ResubscribeOrder, listening, event, data)
                ELSE <<>>
          IN /\ listening' = IF isAck /\ event = "unsubscribe" THEN {}
                             ELSE listening
             /\ published' =
                  fromEvent
                    \o CallListeners(ResubscribeOrder, listening, "message",
                                     data)
             /\ lastOp' = Op("message", "", <<>>, "none", TRUE, 0)
  /\ UNCHANGED <<subscriptionKeys, keysDefined, readyState, wsInfo,
                 isWebSocketPrivate, tokensIssued>>

(***************************************************************************)
(* calculateChecksum.  A price or quantity is a whole number of tenths,    *)
(* a precision is at least 1, and a 32-bit word is kept as two 16-bit      *)
(* halves.                                                                 *)
(***************************************************************************)
\* slice(0, 10)
ChecksumLevels == 10

RECURSIVE XORbits(_, _, _)
\* a ^ b for two numbers of n bits
XORbits(a, b, n) ==
  IF n = 1 THEN (a + b) % 2
  ELSE LET h == n \div 2
       IN (XORbits(a \div (2 ^ h), b \div (2 ^ h), n - h) * (2 ^ h))
            + XORbits(a % (2 ^ h), b % (2 ^ h), h)

\* a ^ b for two numbers of 4 bits, entry (a, b) at position (a + 1, b + 1)
XORTable ==
  SubSeq([a \in 1..16 |->
            SubSeq([b \in 1..16 |-> XORbits(a - 1, b - 1, 4)], 1, 16)], 1, 16)

XOR4(a, b) == XORTable[a + 1][b + 1]

\* a ^ b for two numbers of 16 bits
XOR(a, b) ==
  (XOR4(a \div 4096, b \div 4096) * 4096)
    + (XOR4((a \div 256) % 16, (b \div 256) % 16) * 256)
    + (XOR4((a \div 16) % 16, (b \div 16) % 16) * 16)
    + XOR4(a % 16, b % 16)

Word(hi, lo) == [hi |-> hi, lo |-> lo]
WordXor(x, y) == Word(XOR(x.hi, y.hi), XOR(x.lo, y.lo))
ShiftRight(x, n) ==
  Word(x.hi \div (2 ^ n),
       ((x.hi % (2 ^ n)) * (2 ^ (16 - n))) + (x.lo \div (2 ^ n)))

\* 0xEDB88320
Polynomial == Word(60856, 33568)
AllOnes == Word(65535, 65535)

RECURSIVE TableEntry(_, _)
TableEntry(c, k) ==
  IF k = 0 THEN c
  ELSE TableEntry(IF c.lo % 2 = 1
                  THEN WordXor(Polynomial, ShiftRight(c, 1))
                  ELSE ShiftRight(c, 1), k - 1)

\* the 256 entries of the table, entry n at position n + 1
CRCTable == SubSeq([n \in 1..256 |-> TableEntry(Word(0, n - 1), 8)], 1, 256)

\* the values of a 32-bit register
Words == [hi : 0..65535, lo : 0..65535]

\* one byte of the table-driven CRC-32
crc32Byte ==
  [crc \in Words, byte \in 0..255 |->
     WordXor(CRCTable[XOR(crc.lo % 256, byte) + 1], ShiftRight(crc, 8))]

\* crc32.str(string) >>> 0, the string given as its bytes; crc32Bytes is the
\* register after the bytes from..to, taken in order
crc32str(bytes) ==
  LET crc32Bytes[crc \in Words, from \in 1..(Len(bytes) + 1),
                 to \in 0..Len(bytes)] ==
        IF from > to THEN crc
        ELSE IF from = to THEN crc32Byte[crc, bytes[from]]
        ELSE crc32Bytes[crc32Bytes[crc, from, (from + to) \div 2],
                        ((from + to) \div 2) + 1, to]
  IN WordXor(crc32Bytes[AllOnes, 1, Len(bytes)], AllOnes)

RECURSIVE Digits(_)
\* the decimal digits of n, most significant first
Digits(n) == IF n < 10 THEN <<n>> ELSE Append(Digits(n \div 10), n % 10)

RECURSIVE PadLeft(_, _)
PadLeft(ds, len) == IF Len(ds) >= len THEN ds ELSE PadLeft(<<0>> \o ds, len)

\* value.toFixed(precision).replace('.', ''): the digits of the value written
\* with precision decimal places, at least one of them before the point
toFixedDigits(value, precision) ==
  PadLeft(Digits(value * (10 ^ (precision - 1))), precision + 1)

RECURSIVE StripLeadingZeros(_)
\* replace(/^0+/, '')
StripLeadingZeros(ds) ==
  IF ds # <<>> /\ Head(ds) = 0 THEN StripLeadingZeros(Tail(ds)) ELSE ds

convertPair(price, qty, pricePrecision, qtyPrecision) ==
  StripLeadingZeros(toFixedDigits(price, pricePrecision))
    \o StripLeadingZeros(toFixedDigits(qty, qtyPrecision))

Level(price, qty) == [price |-> price, qty |-> qty]

\* the comparator of list.sort: a goes before b
Before(a, b, isAsk) == IF isAsk THEN a.price < b.price ELSE a.price > b.price

RECURSIVE InsertSorted(_, _, _)
InsertSorted(sorted, x, isAsk) ==
  IF sorted = <<>> THEN <<x>>
  ELSE IF Before(x, Head(sorted), isAsk) THEN <<x>> \o sorted
       ELSE <<Head(sorted)>> \o InsertSorted(Tail(sorted), x, isAsk)

RECURSIVE SortSide(_, _)
\* list.sort(...): stable, by price, ascending for asks, descending for bids
SortSide(list, isAsk) ==
  IF list = <<>> THEN <<>>
  ELSE InsertSorted(SortSide(SubSeq(list, 1, Len(list) - 1), isAsk),
                    list[Len(list)], isAsk)

Slice(list, n) == SubSeq(list, 1, IF Len(list) < n THEN Len(list) ELSE n)

RECURSIVE JoinPairs(_, _, _)
JoinPairs(list, pricePrecision, qtyPrecision) ==
  IF list = <<>> THEN <<>>
  ELSE convertPair(Head(list).price, Head(list).qty, pricePrecision,
                   qtyPrecision)
         \o JoinPairs(Tail(list), pricePrecision, qtyPrecision)

\* a processList that joins all the levels of the list
processListAllLevels(list, isAsk, pricePrecision, qtyPrecision) ==
  JoinPairs(SortSide(list, isAsk), pricePrecision, qtyPrecision)

processList(list, isAsk, pricePrecision, qtyPrecision) ==
  JoinPairs(Slice(SortSide(list, isAsk), ChecksumLevels), pricePrecision,
            qtyPrecision)

calculateChecksum(asks, bids, pricePrecision, qtyPrecision) ==
  LET combinedString == processList(asks, TRUE, pricePrecision, qtyPrecision)
                          \o processList(bids, FALSE, pricePrecision,
                                         qtyPrecision)
  IN crc32str([i \in 1..Len(combinedString) |-> 48 + combinedString[i]])

(***************************************************************************)
(* OrderbookManager                                                        *)
(***************************************************************************)
NoOrderbook ==
  [defined |-> FALSE, asks |-> <<>>, bids |-> <<>>, checksum |-> Word(0, 0)]
NoInstrument == [defined |-> FALSE, price_precision |-> 0, qty_precision |-> 0]

Book(asks, bids, checksum) ==
  [defined |-> TRUE, asks |-> asks, bids |-> bids, checksum |-> checksum]

\* an 'orderbook' event: the current book with the dirty index, or undefined
BookEvent(index) == [book |-> TRUE, minModifiedIndex |-> index]
UnavailableEvent == [book |-> FALSE, minModifiedIndex |-> -1]

Msg(type, applied, threw) == [type |-> type, applied |-> applied, threw |-> threw]

\* a verification that emits the book whatever its checksum
verifyChecksumEmitsUnverified(ob, inst, active, index) ==
  IF ~(inst.defined /\ ob.defined /\ active)
  THEN [orderbook |-> ob, minModifiedIndex |-> index, emitted |-> <<>>,
        refreshed |-> 0]
  ELSE LET sortedBook == [ob EXCEPT !.asks = SortSide(ob.asks, TRUE),
                                    !.bids = SortSide(ob.bids, FALSE)]
       IN [orderbook |-> sortedBook, minModifiedIndex |-> index,
           emitted |-> IF index # -1 THEN <<BookEvent(index)>> ELSE <<>>,
           refreshed |-> 0]

\* a verification that keeps the book of a checksum that does not match
verifyChecksumKeepsBook(ob, inst, active, index) ==
  IF ~(inst.defined /\ ob.defined /\ active)
  THEN [orderbook |-> ob, minModifiedIndex |-> index, emitted |-> <<>>,
        refreshed |-> 0]
  ELSE LET checksum == calculateChecksum(ob.asks, ob.bids,
                                         inst.price_precision,
                                         inst.qty_precision)
           sortedBook == [ob EXCEPT !.asks = SortSide(ob.asks, TRUE),
                                    !.bids = SortSide(ob.bids, FALSE)]
       IN IF checksum = ob.checksum
          THEN [orderbook |-> sortedBook, minModifiedIndex |-> index,
                emitted |-> IF index # -1 THEN <<BookEvent(index)>> ELSE <<>>,
                refreshed |-> 0]
          ELSE [orderbook |-> sortedBook, minModifiedIndex |-> 0,
                emitted |-> <<>>, refreshed |-> 1]

\* #verifyChecksumAndEmitOrderbook: the book, the dirty index, the events and
\* the refresh() calls it leaves
verifyChecksumAndEmitOrderbook(ob, inst, active, index) ==
  IF ~(inst.defined /\ ob.defined /\ active)
  THEN [orderbook |-> ob, minModifiedIndex |-> index, emitted |-> <<>>,
        refreshed |-> 0]
  ELSE LET checksum == calculateChecksum(ob.asks, ob.bids,
                                         inst.price_precision,
                                         inst.qty_precision)
           \* calculateChecksum sorts the two arrays of the book in place
           sortedBook == [ob EXCEPT !.asks = SortSide(ob.asks, TRUE),
                                    !.bids = SortSide(ob.bids, FALSE)]
       IN IF checksum = ob.checksum
          THEN [orderbook |-> sortedBook, minModifiedIndex |-> index,
                emitted |-> IF index # -1 THEN <<BookEvent(index)>> ELSE <<>>,
                refreshed |-> 0]
          ELSE [orderbook |-> NoOrderbook, minModifiedIndex |-> 0,
                emitted |-> <<>>, refreshed |-> 1]

\* findIndex of #applyChange, counted from 0; -1 if no entry is found
RECURSIVE findIndex(_, _, _, _)
findIndex(obSide, price, isAsk, from) ==
  IF from > Len(obSide) THEN -1
  ELSE IF (IF isAsk THEN obSide[from].price >= price
           ELSE obSide[from].price <= price)
       THEN from - 1
       ELSE findIndex(obSide, price, isAsk, from + 1)

RemoveAt(list, i) == SubSeq(list, 1, i - 1) \o SubSeq(list, i + 1, Len(list))
InsertAt(list, i, x) ==
  SubSeq(list, 1, i - 1) \o <<x>> \o SubSeq(list, i, Len(list))

\* a change of quantity 0 handled as a change of the level's quantity
applyChangeKeepsEmptied(obSide, isAsk, change) ==
  LET index == findIndex(obSide, change.price, isAsk, 1)
  IN IF index # -1
     THEN IF obSide[index + 1].price = change.price
          THEN [side |-> [obSide EXCEPT ![index + 1].qty = change.qty],
                index |-> index]
          ELSE [side |-> InsertAt(obSide, index + 1, change), index |-> index]
     ELSE [side |-> Append(obSide, change), index |-> Len(obSide)]

\* #applyChange: the side after the change and the index it returns
applyChange(obSide, isAsk, change) ==
  LET index == findIndex(obSide, change.price, isAsk, 1)
  IN IF index # -1
     THEN IF obSide[index + 1].price = change.price
          THEN IF change.qty = 0
               THEN [side |-> RemoveAt(obSide, index + 1), index |-> index]
               ELSE [side |-> [obSide EXCEPT ![index + 1].qty = change.qty],
                     index |-> index]
          ELSE [side |-> InsertAt(obSide, index + 1, change), index |-> index]
     ELSE [side |-> Append(obSide, change), index |-> Len(obSide)]

\* a dirty index that stays at the index of the first change
MinIndexOfFirstChange(current, modified) ==
  IF current = -1 THEN modified ELSE current

MinIndex(current, modified) ==
  IF current = -1 \/ modified < current THEN modified ELSE current

\* the for loop of #applyUpdates over the changes of one side
RECURSIVE applyChanges(_, _, _, _)
applyChanges(obSide, isAsk, changes, index) ==
  IF changes = <<>> THEN [side |-> obSide, index |-> index]
  ELSE LET r == applyChange(obSide, isAsk, Head(changes))
       IN applyChanges(r.side, isAsk, Tail(changes), MinIndex(index, r.index))

\* a side whose length is never cut
TruncateKeepsAll(obSide, d) == obSide

\* this.#orderbook[side].length = Math.min(this.#depth, length)
Truncate(obSide, d) == Slice(obSide, d)

\* #applyUpdates: asks and bids are the two fields of the message, each an
\* array of changes or something that is not an array
applyUpdates(ob, d, asks, bids, checksum) ==
  IF ~asks.isArray
  THEN \* refresh(), then iterating the field throws
       [orderbook |-> ob, minModifiedIndex |-> -1, refreshed |-> 1,
        threw |-> TRUE]
  ELSE LET a == applyChanges(ob.asks, TRUE, asks.items, -1)
           afterAsks == [ob EXCEPT !.asks = Truncate(a.side, d)]
       IN IF ~bids.isArray
          THEN [orderbook |-> afterAsks, minModifiedIndex |-> a.index,
                refreshed |-> 1, threw |-> TRUE]
          ELSE LET b == applyChanges(ob.bids, FALSE, bids.items, a.index)
               IN [orderbook |->
                     [afterAsks EXCEPT !.bids = Truncate(b.side, d),
                                       !.checksum = checksum],
                   minModifiedIndex |-> b.index, refreshed |-> 0,
                   threw |-> FALSE]

(***************************************************************************)
(* The messages of the feed.                                               *)
(***************************************************************************)
\* a snapshot side of n levels: asks at the prices 2, 4, .. and bids at the
\* same prices from the highest down, each with quantity 1
AskLadder(n) == SubSeq([i \in 1..n |-> Level(2 * i, 1)], 1, n)
BidLadder(n) == SubSeq([i \in 1..n |-> Level(2 * (n - i + 1), 1)], 1, n)
SnapshotSizes == {2, Depth + 2}

NotAnArray == [isArray |-> FALSE, items |-> <<>>]
Changes(list) == [isArray |-> TRUE, items |-> list]

\* the asks field of an update: no change, not an array, the removal of
\* price 2, or two new levels
AsksUpdates ==
  {Changes(<<>>), NotAnArray, Changes(<<Level(2, 0)>>),
   Changes(<<Level(3, 2), Level(1, 1)>>)}

\* the bids field of an update
BidsUpdates ==
  {Changes(<<>>), NotAnArray, Changes(<<Level(3, 2), Level(2, 0)>>)}

\* the price and quantity precisions of the pair, as instrument messages
\* carry them
Precisions == {<<2, 1>>}

\* the words other than the digest that a checksum field carries
WrongChecksums(digest) == {WordXor(digest, Word(0, 1))}

\* the checksum field of a book message: the digest the exchange computes
\* over its book, or a different word
FeedChecksums(asks, bids) ==
  UNION {LET digest == calculateChecksum(asks, bids, p[1], p[2])
         IN {digest} \cup WrongChecksums(digest) : p \in Precisions}

(***************************************************************************)
(* The requests of the client revision that has request(): a map from      *)
(* req_id to the callbacks of the promise that request() returned.         *)
(***************************************************************************)
MaxRequests == 3

\* the numbers uniqueId() returns: a random part in front of the
\* milliseconds of the year, which two calls can give alike; 0 is falsy
RequestIds == {0, 1, 2}

NoPromise == 0

\* a promise with the number of calls of its resolve and of its reject, and
\* the req_id of the reply it was resolved with
Promise(id) ==
  [req_id |-> id, resolveCalls |-> 0, rejectCalls |-> 0, value |-> -1]

RequestEvent(type, id, completed) ==
  [type |-> type, req_id |-> id, completed |-> completed]

\* a reply of the exchange: its req_id, and whether it names a channel
Reply(id, channel) == [req_id |-> id, channel |-> channel]

RequestInit ==
  /\ requestsCallbacks = [id \in RequestIds |-> NoPromise]
  /\ promises = <<>>
  /\ requestInfo = FALSE
  /\ lastRequestEvent = RequestEvent("init", -1, NoPromise)

\* createWebSocket
RequestCreateWebSocket ==
  /\ requestInfo' = TRUE
  /\ lastRequestEvent' = RequestEvent("connecting", -1, NoPromise)
  /\ UNCHANGED <<requestsCallbacks, promises>>

\* request(method, params): reading webSocket.info.token throws while wsInfo
\* is undefined; webSocket.send may throw
Request(id, sendThrows) ==
  /\ Len(promises) < MaxRequests
  /\ IF ~requestInfo
     THEN /\ lastRequestEvent' = RequestEvent("requestThrew", id, NoPromise)
          /\ UNCHANGED <<requestsCallbacks, promises>>
     ELSE LET p == Len(promises) + 1
          IN IF sendThrows
             THEN /\ requestsCallbacks' =
                       [requestsCallbacks EXCEPT ![id] = NoPromise]
                  /\ promises' =
                       Append(promises, [Promise(id) EXCEPT !.rejectCalls = 1])
                  /\ lastRequestEvent' = RequestEvent("sendThrew", id, p)
             ELSE /\ requestsCallbacks' = [requestsCallbacks EXCEPT ![id] = p]
                  /\ promises' = Append(promises, Promise(id))
                  /\ lastRequestEvent' = RequestEvent("request", id, NoPromise)
  /\ UNCHANGED requestInfo

\* a message handler that resolves and leaves the callbacks in the map
RequestOnMessageKeepsEntry(data) ==
  /\ requestInfo
  /\ IF data.channel \/ data.req_id = 0
        \/ requestsCallbacks[data.req_id] = NoPromise
     THEN /\ lastRequestEvent' =
               RequestEvent("message", data.req_id, NoPromise)
          /\ UNCHANGED <<requestsCallbacks, promises>>
     ELSE LET p == requestsCallbacks[data.req_id]
          IN /\ promises' =
                  [promises EXCEPT ![p].resolveCalls = @ + 1,
                                   ![p].value = data.req_id]
             /\ lastRequestEvent' = RequestEvent("message", data.req_id, p)
             /\ UNCHANGED requestsCallbacks
  /\ UNCHANGED requestInfo

\* webSocket.on('message'): a message with a channel goes to the channel's
\* emitter; one with a req_id resolves the promise the map holds for it
RequestOnMessage(data) ==
  /\ requestInfo
  /\ IF data.channel \/ data.req_id = 0
        \/ requestsCallbacks[data.req_id] = NoPromise
     THEN /\ lastRequestEvent' =
               RequestEvent("message", data.req_id, NoPromise)
          /\ UNCHANGED <<requestsCallbacks, promises>>
     ELSE LET p == requestsCallbacks[data.req_id]
          IN /\ requestsCallbacks' =
                  [requestsCallbacks EXCEPT ![data.req_id] = NoPromise]
             /\ promises' =
                  [promises EXCEPT ![p].resolveCalls = @ + 1,
                                   ![p].value = data.req_id]
             /\ lastRequestEvent' = RequestEvent("message", data.req_id, p)
  /\ UNCHANGED requestInfo

\* the events of the transport that the client listens to: each handler
\* writes to the log (the 'open' handler also sends the subscriptions)
TransportEvents ==
  {"open", "error", "timeout", "delay", "connecting", "reconnected", "close"}

RequestOnTransportEvent(type) ==
  /\ requestInfo
  /\ lastRequestEvent' = RequestEvent(type, -1, NoPromise)
  /\ UNCHANGED <<requestsCallbacks, promises, requestInfo>>

(***************************************************************************)
(* calculateChecksum as a function of the two lists it is given.           *)
(***************************************************************************)
MaxEdits == 2
MaxExtra == 2

\* the precisions of the instruments the function is called with
ChecksumPrecisions == {<<1, 1>>, <<2, 1>>}

\* the prices of the levels added to a list: below, among and above the
\* prices of a ladder of ChecksumLevels + 1 levels
AddedPrices == {1, (2 * ChecksumLevels) - 1, (2 * ChecksumLevels) + 5}

\* the places of a list at which a level is removed or changed
EditedPlaces == {1, ChecksumLevels, ChecksumLevels + 1}

ChecksumInit(precisions) ==
  /\ checksumAsks = AskLadder(ChecksumLevels + 1)
  /\ checksumBids = BidLadder(ChecksumLevels + 1)
  /\ checksumPrecision \in precisions
  /\ checksumValue =
       calculateChecksum(checksumAsks, checksumBids, checksumPrecision[1],
                         checksumPrecision[2])
  /\ checksumEdits = 0

\* calculateChecksum({ asks, bids, pricePrecision, qtyPrecision })
Calculate(asks, bids) ==
  /\ checksumEdits < MaxEdits
  /\ checksumAsks' = asks
  /\ checksumBids' = bids
  /\ checksumValue' =
       calculateChecksum(asks, bids, checksumPrecision[1],
                         checksumPrecision[2])
  /\ checksumEdits' = checksumEdits + 1
  /\ UNCHANGED checksumPrecision

\* the checksum of the lists with one more level at the end of a list
ChecksumAddLevel(isAsk, price) ==
  LET list == IF isAsk THEN checksumAsks ELSE checksumBids
      added == Append(list, Level(price, 1))
  IN /\ Len(list) < ChecksumLevels + MaxExtra
     /\ \A i \in 1..Len(list) : list[i].price # price
     /\ IF isAsk THEN Calculate(added, checksumBids)
                 ELSE Calculate(checksumAsks, added)

\* the checksum of the lists without the level at a place of a list
ChecksumRemoveLevel(isAsk, place) ==
  LET list == IF isAsk THEN checksumAsks ELSE checksumBids
  IN /\ place <= Len(list)
     /\ IF isAsk THEN Calculate(RemoveAt(list, place), checksumBids)
                 ELSE Calculate(checksumAsks, RemoveAt(list, place))

\* the checksum of the lists with another quantity at a place of a list
ChecksumChangeLevel(isAsk, place) ==
  LET list == IF isAsk THEN checksumAsks ELSE checksumBids
  IN /\ place <= Len(list)
     /\ LET changed == [list EXCEPT ![place].qty = 3 - @]
        IN IF isAsk THEN Calculate(changed, checksumBids)
                    ELSE Calculate(checksumAsks, changed)

(***************************************************************************)
(* BaseWrapper: makeRequest and the nonce generator it signs with.         *)
(***************************************************************************)
MaxRestCalls == 4

\* Date.now() * 1000
NonceScale == 1000

\* the readings of Date.now()
ClockReadings == 0..2

\* apiKey of the constructor: left out, the empty string, or a key
NoApiKey == "undefined"

ApiKeys == {NoApiKey, "", "key"}

\* !apiKey
Falsy(key) == key \in {NoApiKey, ""}

supportedMethods == {"GET", "POST", "PUT", "DELETE", "PATCH"}

Methods == {"GET", "POST", "HEAD"}

\* what axios answers: data, data with a list of errors, or a failure
Responses == {"data", "errors", "failure"}

RestCall(op, method, requiresAuth, error, nonce) ==
  [op |-> op, method |-> method, requiresAuth |-> requiresAuth,
   error |-> error, nonce |-> nonce]

\* a generator that adds the counter only to a reading below the last nonce
generateNonceOnlyBelow(last, count, now) ==
  LET currentNonce == now * NonceScale
  IN IF currentNonce < last
     THEN [lastNonce |-> last + (count + 1), counter |-> count + 1]
     ELSE [lastNonce |-> currentNonce, counter |-> 0]

\* generateNonce, with the reading of the clock that it takes
generateNonce(last, count, now) ==
  LET currentNonce == now * NonceScale
  IN IF currentNonce <= last
     THEN [lastNonce |-> last + (count + 1), counter |-> count + 1]
     ELSE [lastNonce |-> currentNonce, counter |-> 0]

RestInit(keys) ==
  /\ apiKey \in keys
  /\ lastNonce = 0
  /\ counter = 0
  /\ nonces = <<>>
  /\ axiosCalls = 0
  /\ lastRest = RestCall("init", "", FALSE, "none", -1)

\* a call of the generator of a wrapper
GenerateNonce(now) ==
  /\ Len(nonces) < MaxRestCalls
  /\ LET g == generateNonce(lastNonce, counter, now)
     IN /\ lastNonce' = g.lastNonce
        /\ counter' = g.counter
        /\ nonces' = Append(nonces, g.lastNonce)
        /\ lastRest' = RestCall("generateNonce", "", FALSE, "none", g.lastNonce)
  /\ UNCHANGED <<apiKey, axiosCalls>>

\* a makeRequest that does not look at the apiKey
makeRequestWithoutKeyCheck(method, requiresAuth, placeholdersLeft, now, response) ==
  /\ Len(nonces) < MaxRestCalls
  /\ axiosCalls < MaxRestCalls
  /\ IF method \notin supportedMethods
     THEN /\ lastRest' =
               RestCall("makeRequest", method, requiresAuth, "NotSupported", -1)
          /\ UNCHANGED <<lastNonce, counter, nonces, axiosCalls>>
     ELSE IF placeholdersLeft
     THEN /\ lastRest' =
               RestCall("makeRequest", method, requiresAuth, "MissingValues", -1)
          /\ UNCHANGED <<lastNonce, counter, nonces, axiosCalls>>
     ELSE LET g == generateNonce(lastNonce, counter, now)
              error == CASE response = "data" -> "none"
                         [] response = "errors" -> "ApiError"
                         [] OTHER -> "RequestFailed"
          IN /\ IF requiresAuth
                THEN /\ lastNonce' = g.lastNonce
                     /\ counter' = g.counter
                     /\ nonces' = Append(nonces, g.lastNonce)
                ELSE UNCHANGED <<lastNonce, counter, nonces>>
             /\ axiosCalls' = axiosCalls + 1
             /\ lastRest' =
                  RestCall("makeRequest", method, requiresAuth, error,
                           IF requiresAuth THEN g.lastNonce ELSE -1)
  /\ UNCHANGED apiKey

\* makeRequest({ endpoint, method, baseUrl, requiresAuth, params }), with
\* whether params leaves a placeholder of the endpoint open, the reading of
\* the clock and the answer of axios
makeRequest(method, requiresAuth, placeholdersLeft, now, response) ==
  /\ Len(nonces) < MaxRestCalls
  /\ axiosCalls < MaxRestCalls
  /\ IF method \notin supportedMethods
     THEN /\ lastRest' =
               RestCall("makeRequest", method, requiresAuth, "NotSupported", -1)
          /\ UNCHANGED <<lastNonce, counter, nonces, axiosCalls>>
     ELSE IF requiresAuth /\ Falsy(apiKey)
     THEN /\ lastRest' =
               RestCall("makeRequest", method, requiresAuth, "NoApiKey", -1)
          /\ UNCHANGED <<lastNonce, counter, nonces, axiosCalls>>
     ELSE IF placeholdersLeft
     THEN /\ lastRest' =
               RestCall("makeRequest", method, requiresAuth, "MissingValues", -1)
          /\ UNCHANGED <<lastNonce, counter, nonces, axiosCalls>>
     ELSE LET g == generateNonce(lastNonce, counter, now)
              error == CASE response = "data" -> "none"
                         [] response = "errors" -> "ApiError"
                         [] OTHER -> "RequestFailed"
          IN /\ IF requiresAuth
                THEN /\ lastNonce' = g.lastNonce
                     /\ counter' = g.counter
                     /\ nonces' = Append(nonces, g.lastNonce)
                ELSE UNCHANGED <<lastNonce, counter, nonces>>
             /\ axiosCalls' = axiosCalls + 1
             /\ lastRest' =
                  RestCall("makeRequest", method, requiresAuth, error,
                           IF requiresAuth THEN g.lastNonce ELSE -1)
  /\ UNCHANGED apiKey

(***************************************************************************)
(* OrderbookSubscriptionManager: one OrderbookManager per symbol, whose     *)
(* 'orderbook' events it emits again cut to the requested depth.  The file  *)
(* holds two revisions of the class; the first has no unsubscribe.          *)
(***************************************************************************)
MaxSymbols == 2

\* the symbol lists a caller passes
RECURSIVE SymbolLists(_)
SymbolLists(n) ==
  IF n = 0 THEN {<<>>}
  ELSE SymbolLists(n - 1)
         \cup {Append(l, x) : l \in {k \in SymbolLists(n - 1) : Len(k) = n - 1},
                              x \in Symbols}

\* a depth parameter that is left out of subscribe
NoDepth == -1
FanoutDepths == {1, Depth, NoDepth}

\* minModifiedIndex < this.#depth, false for a depth that is undefined
LessThanDepth(index, d) == d # NoDepth /\ index < d

\* slice(0, this.#depth), the whole array for a depth that is undefined
sliceTo(list, d) == IF d = NoDepth THEN list ELSE Slice(list, d)

\* a new OrderbookManager: active, holding its transport client, which is
\* connecting
Engine(symbol) ==
  [symbol |-> symbol, isActive |-> TRUE, released |-> FALSE,
   connected |-> FALSE]

NoManagers == [defined |-> FALSE, of |-> [x \in Symbols |-> 0]]

FanoutCall(op, symbols, error) ==
  [op |-> op, symbols |-> symbols, error |-> error, engine |-> 0,
   data |-> <<>>]
Upstream(e, data) ==
  [op |-> "orderbook", symbols |-> <<>>, error |-> "none", engine |-> e,
   data |-> data]

\* what an OrderbookManager hands to its 'orderbook' listeners
UpstreamBook(asks, bids, symbol, timestamp, checksum, index) ==
  <<[book |-> TRUE, asks |-> asks, bids |-> bids, symbol |-> symbol,
     timestamp |-> timestamp, checksum |-> checksum,
     minModifiedIndex |-> index]>>
UpstreamUnavailable == <<>>

\* what the fan-out emits
FanoutBook(asks, bids, symbol, timestamp) ==
  [book |-> TRUE, asks |-> asks, bids |-> bids, symbol |-> symbol,
   timestamp |-> timestamp]
FanoutUnavailable ==
  [book |-> FALSE, asks |-> <<>>, bids |-> <<>>, symbol |-> "",
   timestamp |-> ""]

\* the for loop of subscribe: the first revision creates a manager for the
\* symbols that have none, the second for every symbol of the list
RECURSIVE createManagers(_, _, _, _)
createManagers(of, engs, symbols, onlyNew) ==
  IF symbols = <<>> THEN [of |-> of, engines |-> engs]
  ELSE LET symb == Head(symbols)
       IN IF onlyNew /\ of[symb] # 0
          THEN createManagers(of, engs, Tail(symbols), onlyNew)
          ELSE createManagers([of EXCEPT ![symb] = Len(engs) + 1],
                              Append(engs, Engine(symb)), Tail(symbols),
                              onlyNew)

\* the for loop of unsubscribe: destroy() of a manager emits the unavailable
\* notification, which the fan-out emits again, and fails on the transport
\* client it has released before
RECURSIVE destroyEach(_, _, _, _)
destroyEach(managers, engs, symbols, events) ==
  IF symbols = <<>>
  THEN [engines |-> engs, emitted |-> events, error |-> "none"]
  ELSE IF ~managers.defined
  THEN [engines |-> engs, emitted |-> events, error |-> "TypeError"]
  ELSE IF managers.of[Head(symbols)] = 0
  THEN [engines |-> engs, emitted |-> events, error |-> "NotSubscribed"]
  ELSE LET e == managers.of[Head(symbols)]
           inactive == [engs EXCEPT ![e].isActive = FALSE]
           notified == Append(events, FanoutUnavailable)
       IN IF engs[e].released
          THEN [engines |-> inactive, emitted |-> notified,
                error |-> "TypeError"]
          ELSE destroyEach(managers, [inactive EXCEPT ![e].released = TRUE],
                           Tail(symbols), notified)

\* a fan-out that emits a book when the dirty index equals the depth too
onOrderbookUpToDepth(data, d) ==
  IF data = UpstreamUnavailable THEN <<FanoutUnavailable>>
  ELSE IF d # NoDepth /\ data[1].minModifiedIndex <= d
       THEN <<FanoutBook(sliceTo(data[1].asks, d), sliceTo(data[1].bids, d),
                         data[1].symbol, data[1].timestamp)>>
       ELSE <<>>

\* #onOrderbook
onOrderbook(data, d) ==
  IF data = UpstreamUnavailable THEN <<FanoutUnavailable>>
  ELSE IF LessThanDepth(data[1].minModifiedIndex, d)
       THEN <<FanoutBook(sliceTo(data[1].asks, d), sliceTo(data[1].bids, d),
                         data[1].symbol, data[1].timestamp)>>
       ELSE <<>>

FanoutInit(revisions) ==
  /\ revision \in revisions
  /\ orderbookManagers =
       IF revision = 1 THEN [NoManagers EXCEPT !.defined = TRUE]
       ELSE NoManagers
  /\ fanoutDepth = NoDepth
  /\ engines = <<>>
  /\ fanoutEmitted = <<>>
  /\ lastFanout = FanoutCall("init", <<>>, "none")

\* subscribe({ symbol, depth })
FanoutSubscribe(symbols, d) ==
  /\ fanoutEmitted' = <<>>
  /\ IF revision = 2 /\ orderbookManagers.defined
     THEN /\ lastFanout' = FanoutCall("subscribe", symbols, "SubscribeOnce")
          /\ UNCHANGED <<orderbookManagers, fanoutDepth, engines>>
     ELSE LET created == createManagers(orderbookManagers.of, engines,
                                        symbols, revision = 1)
          IN /\ fanoutDepth' = d
             /\ orderbookManagers' = [defined |-> TRUE, of |-> created.of]
             /\ engines' = created.engines
             /\ lastFanout' = FanoutCall("subscribe", symbols, "none")
  /\ UNCHANGED revision

\* unsubscribe({ symbol }), of the second revision
FanoutUnsubscribe(symbols) ==
  /\ revision = 2
  /\ LET r == destroyEach(orderbookManagers, engines, symbols, <<>>)
     IN /\ engines' = r.engines
        /\ fanoutEmitted' = r.emitted
        /\ lastFanout' = FanoutCall("unsubscribe", symbols, r.error)
  /\ UNCHANGED <<revision, orderbookManagers, fanoutDepth>>

\* the transport of a manager opens
EngineOpen(e) ==
  /\ ~engines[e].connected
  /\ ~engines[e].released
  /\ engines' = [engines EXCEPT ![e].connected = TRUE]
  /\ fanoutEmitted' = <<>>
  /\ lastFanout' = FanoutCall("open", <<>>, "none")
  /\ UNCHANGED <<revision, orderbookManagers, fanoutDepth>>

\* the transport of a manager closes: the manager emits the unavailable
\* notification
EngineClose(e) ==
  /\ engines[e].connected
  /\ engines' = [engines EXCEPT ![e].connected = FALSE]
  /\ fanoutEmitted' = onOrderbook(UpstreamUnavailable, fanoutDepth)
  /\ lastFanout' = Upstream(e, UpstreamUnavailable)
  /\ UNCHANGED <<revision, orderbookManagers, fanoutDepth>>

\* an active manager emits a verified book with its dirty index; the
\* checksum stands for the fields of the book that the fan-out leaves out
EngineBook(e, n, index, timestamp) ==
  /\ engines[e].connected
  /\ engines[e].isActive
  /\ LET data == UpstreamBook(AskLadder(n), BidLadder(n), engines[e].symbol,
                              timestamp, Word(n, n), index)
     IN /\ fanoutEmitted' = onOrderbook(data, fanoutDepth)
        /\ lastFanout' = Upstream(e, data)
  /\ UNCHANGED <<revision, orderbookManagers, fanoutDepth, engines>>

Timestamps == {"2024-01-01T00:00:00.000Z", "2024-01-01T00:00:01.000Z"}

(***************************************************************************)
(* Initial state of an OrderbookManager: constructed, not yet connected.   *)
(***************************************************************************)
ManagerInit ==
  /\ depth = Depth
  /\ orderbook = NoOrderbook
  /\ instrument = NoInstrument
  /\ isActive = TRUE
  /\ minModifiedIndex = -1
  /\ connected = FALSE
  /\ emitted = <<>>
  /\ refreshed = 0
  /\ lastMsg = Msg("init", FALSE, FALSE)
  /\ resync = "synced"
  /\ sinceOpen = [snapshot |-> FALSE, instrument |-> FALSE]

Init == ClientInit(BOOLEAN) /\ ManagerInit /\ FanoutInit({2}) /\ RequestInit
  /\ RestInit({NoApiKey}) /\ ChecksumInit(Precisions)

\* the history of a resynchronisation: "discarded" from a checksum mismatch
\* on, "repopulated" once a later snapshot has given the manager a book,
\* "resynced" when the first book after the mismatch is emitted, "synced"
\* with every later book; v is what the verification left
ResyncAfter(phase, type, v) ==
  IF v.refreshed = 1 THEN "discarded"
  ELSE IF v.emitted # <<>>
       THEN IF phase \in {"discarded", "repopulated"} THEN "resynced"
            ELSE "synced"
  ELSE IF type = "snapshot" /\ phase = "discarded" /\ v.orderbook.defined
       THEN "repopulated"
       ELSE phase

\* an 'open' handler that keeps the instrument of the last connection
ManagerOnOpenKeepsInstrument ==
  /\ ~connected
  /\ isActive
  /\ connected' = TRUE
  /\ orderbook' = NoOrderbook
  /\ emitted' = <<>>
  /\ refreshed' = 0
  /\ lastMsg' = Msg("open", TRUE, FALSE)
  /\ sinceOpen' = [snapshot |-> FALSE, instrument |-> FALSE]
  /\ UNCHANGED <<depth, instrument, isActive, minModifiedIndex, resync>>

\* webSocketClient.on('open'); a transport that destroy() closed does not
\* open again
ManagerOnOpen ==
  /\ ~connected
  /\ isActive
  /\ connected' = TRUE
  /\ instrument' = NoInstrument
  /\ orderbook' = NoOrderbook
  /\ emitted' = <<>>
  /\ refreshed' = 0
  /\ lastMsg' = Msg("open", TRUE, FALSE)
  /\ sinceOpen' = [snapshot |-> FALSE, instrument |-> FALSE]
  /\ UNCHANGED <<depth, isActive, minModifiedIndex, resync>>

\* webSocketClient.on('close')
ManagerOnClose ==
  /\ connected
  /\ connected' = FALSE
  /\ orderbook' = NoOrderbook
  /\ emitted' = <<UnavailableEvent>>
  /\ refreshed' = 0
  /\ lastMsg' = Msg("close", TRUE, FALSE)
  /\ UNCHANGED <<depth, instrument, isActive, minModifiedIndex, resync,
                 sinceOpen>>

\* destroy(); a second call fails on the released transport client after it
\* has emitted
Destroy ==
  /\ isActive' = FALSE
  /\ emitted' = <<UnavailableEvent>>
  /\ orderbook' = IF isActive THEN NoOrderbook ELSE orderbook
  /\ refreshed' = 0
  /\ lastMsg' = Msg("destroy", TRUE, ~isActive)
  /\ UNCHANGED <<depth, instrument, minModifiedIndex, connected, resync,
                 sinceOpen>>

\* an instrument message that stores the instrument and verifies nothing
UpdateInstrumentNeverVerifies(precision) ==
  /\ connected
  /\ LET first == ~instrument.defined
     IN /\ instrument' = [defined |-> TRUE, price_precision |-> precision[1],
                          qty_precision |-> precision[2]]
        /\ minModifiedIndex' = IF first THEN 0 ELSE minModifiedIndex
        /\ emitted' = <<>>
        /\ refreshed' = 0
        /\ lastMsg' = Msg("instrument", first, FALSE)
  /\ sinceOpen' = [sinceOpen EXCEPT !.instrument = TRUE]
  /\ UNCHANGED <<depth, isActive, connected, orderbook, resync>>

\* a first instrument message that leaves the dirty index as it was
UpdateInstrumentKeepsIndex(precision) ==
  /\ connected
  /\ LET first == ~instrument.defined
         inst == [defined |-> TRUE, price_precision |-> precision[1],
                  qty_precision |-> precision[2]]
         v == verifyChecksumAndEmitOrderbook(orderbook, inst, isActive,
                                           minModifiedIndex)
     IN /\ instrument' = inst
        /\ IF first
           THEN /\ orderbook' = v.orderbook
                /\ minModifiedIndex' = v.minModifiedIndex
                /\ emitted' = v.emitted
                /\ refreshed' = v.refreshed
                /\ resync' = ResyncAfter(resync, "instrument", v)
           ELSE /\ emitted' = <<>>
                /\ refreshed' = 0
                /\ UNCHANGED <<orderbook, minModifiedIndex, resync>>
        /\ lastMsg' = Msg("instrument", first, FALSE)
  /\ sinceOpen' = [sinceOpen EXCEPT !.instrument = TRUE]
  /\ UNCHANGED <<depth, isActive, connected>>

\* #updateInstrument for a message whose pairs hold the manager's symbol
UpdateInstrument(precision) ==
  /\ connected
  /\ LET first == ~instrument.defined
         inst == [defined |-> TRUE, price_precision |-> precision[1],
                  qty_precision |-> precision[2]]
         v == verifyChecksumAndEmitOrderbook(orderbook, inst, isActive, 0)
     IN /\ instrument' = inst
        /\ IF first
           THEN /\ orderbook' = v.orderbook
                /\ minModifiedIndex' = v.minModifiedIndex
                /\ emitted' = v.emitted
                /\ refreshed' = v.refreshed
                /\ resync' = ResyncAfter(resync, "instrument", v)
           ELSE /\ emitted' = <<>>
                /\ refreshed' = 0
                /\ UNCHANGED <<orderbook, minModifiedIndex, resync>>
        /\ lastMsg' = Msg("instrument", first, FALSE)
  /\ sinceOpen' = [sinceOpen EXCEPT !.instrument = TRUE]
  /\ UNCHANGED <<depth, isActive, connected>>

\* #updateInstrument for a message whose pairs do not hold the manager's
\* symbol: find returns undefined
UpdateInstrumentOtherPairs ==
  /\ connected
  /\ LET first == ~instrument.defined
         v == verifyChecksumAndEmitOrderbook(orderbook, NoInstrument, isActive,
                                           0)
     IN /\ instrument' = NoInstrument
        /\ IF first
           THEN /\ orderbook' = v.orderbook
                /\ minModifiedIndex' = v.minModifiedIndex
                /\ emitted' = v.emitted
                /\ refreshed' = v.refreshed
                /\ resync' = ResyncAfter(resync, "instrument", v)
           ELSE /\ emitted' = <<>>
                /\ refreshed' = 0
                /\ UNCHANGED <<orderbook, minModifiedIndex, resync>>
        /\ lastMsg' = Msg("instrument", first, FALSE)
  /\ sinceOpen' = [sinceOpen EXCEPT !.instrument = TRUE]
  /\ UNCHANGED <<depth, isActive, connected>>

\* #onOrderbookSnapshot
OnOrderbookSnapshot(asks, bids, checksum) ==
  /\ connected
  /\ LET v == verifyChecksumAndEmitOrderbook(Book(asks, bids, checksum),
                                             instrument, isActive, 0)
     IN /\ orderbook' = v.orderbook
        /\ minModifiedIndex' = v.minModifiedIndex
        /\ emitted' = v.emitted
        /\ refreshed' = v.refreshed
        /\ resync' = ResyncAfter(resync, "snapshot", v)
  /\ lastMsg' = Msg("snapshot", TRUE, FALSE)
  /\ sinceOpen' = [sinceOpen EXCEPT !.snapshot = TRUE]
  /\ UNCHANGED <<depth, instrument, isActive, connected>>

\* an update handler that returns only if the manager holds no book
OnOrderbookUpdateWhileInactive(asks, bids, checksum) ==
  /\ connected
  /\ IF ~orderbook.defined
     THEN /\ emitted' = <<>>
          /\ refreshed' = 0
          /\ lastMsg' = Msg("update", FALSE, FALSE)
          /\ UNCHANGED <<orderbook, minModifiedIndex, resync>>
     ELSE LET u == applyUpdates(orderbook, depth, asks, bids, checksum)
              v == verifyChecksumAndEmitOrderbook(u.orderbook, instrument,
                                                  isActive, u.minModifiedIndex)
          IN IF u.threw
             THEN /\ orderbook' = u.orderbook
                  /\ minModifiedIndex' = u.minModifiedIndex
                  /\ emitted' = <<>>
                  /\ refreshed' = u.refreshed
                  /\ lastMsg' = Msg("update", TRUE, TRUE)
                  /\ UNCHANGED resync
             ELSE /\ orderbook' = v.orderbook
                  /\ minModifiedIndex' = v.minModifiedIndex
                  /\ emitted' = v.emitted
                  /\ refreshed' = v.refreshed
                  /\ lastMsg' = Msg("update", TRUE, FALSE)
                  /\ resync' = ResyncAfter(resync, "update", v)
  /\ UNCHANGED <<depth, instrument, isActive, connected, sinceOpen>>

\* #onOrderbookUpdate
OnOrderbookUpdate(asks, bids, checksum) ==
  /\ connected
  /\ IF ~orderbook.defined \/ ~isActive
     THEN /\ emitted' = <<>>
          /\ refreshed' = 0
          /\ lastMsg' = Msg("update", FALSE, FALSE)
          /\ UNCHANGED <<orderbook, minModifiedIndex, resync>>
     ELSE LET u == applyUpdates(orderbook, depth, asks, bids, checksum)
              v == verifyChecksumAndEmitOrderbook(u.orderbook, instrument,
                                                  isActive, u.minModifiedIndex)
          IN IF u.threw
             THEN /\ orderbook' = u.orderbook
                  /\ minModifiedIndex' = u.minModifiedIndex
                  /\ emitted' = <<>>
                  /\ refreshed' = u.refreshed
                  /\ lastMsg' = Msg("update", TRUE, TRUE)
                  /\ UNCHANGED resync
             ELSE /\ orderbook' = v.orderbook
                  /\ minModifiedIndex' = v.minModifiedIndex
                  /\ emitted' = v.emitted
                  /\ refreshed' = v.refreshed
                  /\ lastMsg' = Msg("update", TRUE, FALSE)
                  /\ resync' = ResyncAfter(resync, "update", v)
  /\ UNCHANGED <<depth, instrument, isActive, connected, sinceOpen>>

\* a book update as the feed sends it: the checksum is that of the book the
\* changes lead to, or a different word; a manager without book or inactive
\* returns before it reads the message, whatever its checksum
FeedUpdate ==
  /\ connected
  /\ \E asks \in AsksUpdates, bids \in BidsUpdates :
       IF ~orderbook.defined \/ ~isActive
       THEN OnOrderbookUpdate(asks, bids, Word(0, 0))
       ELSE LET after == applyUpdates(orderbook, depth, asks, bids, Word(0, 0))
            IN \E checksum \in FeedChecksums(after.orderbook.asks,
                                             after.orderbook.bids) :
                 OnOrderbookUpdate(asks, bids, checksum)

\* the checksums of the snapshots, by the number of levels of a side
SnapshotChecksums ==
  [n \in SnapshotSizes |-> FeedChecksums(AskLadder(n), BidLadder(n))]

\* a book snapshot as the feed sends it
FeedSnapshot ==
  /\ connected
  /\ \E n \in SnapshotSizes :
       \E checksum \in SnapshotChecksums[n] :
         OnOrderbookSnapshot(AskLadder(n), BidLadder(n), checksum)

\* the subscription registry and its transport
Next ==
  /\ \/ \E c \in Channels : \E p \in SubscribeParams(c) : Subscribe(c, p)
     \/ \E c \in Channels : \E p \in UnsubscribeParams(c) : Unsubscribe(c, p)
     \/ CreateWebSocket
     \/ OnOpen
     \/ OnClose
  /\ UNCHANGED managerVars
  /\ UNCHANGED fanoutVars
  /\ UNCHANGED requestVars
  /\ UNCHANGED restVars
  /\ UNCHANGED checksumVars

Spec == Init /\ [][Next]_vars

\* one OrderbookManager fed by its (public) client
InitBook ==
  ClientInit({FALSE}) /\ ManagerInit /\ FanoutInit({2}) /\ RequestInit
  /\ RestInit({NoApiKey}) /\ ChecksumInit(Precisions)

NextBook ==
  /\ \/ ManagerOnOpen
     \/ ManagerOnClose
     \/ \E p \in Precisions : UpdateInstrument(p)
     \/ FeedSnapshot
     \/ FeedUpdate
     \/ Destroy
  /\ UNCHANGED registryVars
  /\ UNCHANGED fanoutVars
  /\ UNCHANGED requestVars
  /\ UNCHANGED restVars
  /\ UNCHANGED checksumVars

SpecBook == InitBook /\ [][NextBook]_vars

\* an OrderbookManager whose instrument channel also carries messages for
\* other pairs
NextInstrument ==
  \/ NextBook
  \/ /\ UpdateInstrumentOtherPairs
     /\ UNCHANGED registryVars
     /\ UNCHANGED fanoutVars
     /\ UNCHANGED requestVars
     /\ UNCHANGED restVars
     /\ UNCHANGED checksumVars

SpecInstrument == InitBook /\ [][NextInstrument]_vars

\* the fan-out of either revision, its managers seen through their events
InitFanout ==
  ClientInit({FALSE}) /\ ManagerInit /\ FanoutInit({1, 2}) /\ RequestInit
  /\ RestInit({NoApiKey}) /\ ChecksumInit(Precisions)

NextFanout ==
  /\ \/ \E symbols \in SymbolLists(MaxSymbols), d \in FanoutDepths :
          FanoutSubscribe(symbols, d)
     \/ \E symbols \in SymbolLists(MaxSymbols) : FanoutUnsubscribe(symbols)
     \/ \E e \in 1..Len(engines) : EngineOpen(e)
     \/ \E e \in 1..Len(engines) : EngineClose(e)
     \/ \E e \in 1..Len(engines), n \in SnapshotSizes, index \in 0..Depth,
           timestamp \in Timestamps : EngineBook(e, n, index, timestamp)
  /\ UNCHANGED registryVars
  /\ UNCHANGED managerVars
  /\ UNCHANGED requestVars
  /\ UNCHANGED restVars
  /\ UNCHANGED checksumVars

SpecFanout == InitFanout /\ [][NextFanout]_vars

\* the requests of a client and the replies and transport events it gets
InitRequests ==
  ClientInit({FALSE}) /\ ManagerInit /\ FanoutInit({2}) /\ RequestInit
  /\ RestInit({NoApiKey}) /\ ChecksumInit(Precisions)

NextRequests ==
  /\ \/ RequestCreateWebSocket
     \/ \E id \in RequestIds, sendThrows \in BOOLEAN : Request(id, sendThrows)
     \/ \E id \in RequestIds, channel \in BOOLEAN :
          RequestOnMessage(Reply(id, channel))
     \/ \E type \in TransportEvents : RequestOnTransportEvent(type)
  /\ UNCHANGED registryVars
  /\ UNCHANGED managerVars
  /\ UNCHANGED fanoutVars
  /\ UNCHANGED restVars
  /\ UNCHANGED checksumVars

SpecRequests == InitRequests /\ [][NextRequests]_vars

\* the requests of a BaseWrapper and the calls of its nonce generator
InitRest ==
  ClientInit({FALSE}) /\ ManagerInit /\ FanoutInit({2}) /\ RequestInit
  /\ RestInit(ApiKeys) /\ ChecksumInit(Precisions)

NextRest ==
  /\ \/ \E now \in ClockReadings : GenerateNonce(now)
     \/ \E method \in Methods, requiresAuth \in BOOLEAN,
           placeholdersLeft \in BOOLEAN, now \in ClockReadings,
           response \in Responses :
          makeRequest(method, requiresAuth, placeholdersLeft, now, response)
  /\ UNCHANGED registryVars
  /\ UNCHANGED managerVars
  /\ UNCHANGED fanoutVars
  /\ UNCHANGED requestVars
  /\ UNCHANGED checksumVars

SpecRest == InitRest /\ [][NextRest]_vars

\* calculateChecksum on lists of more than ChecksumLevels levels
InitChecksum ==
  ClientInit({FALSE}) /\ ManagerInit /\ FanoutInit({2}) /\ RequestInit
  /\ RestInit({NoApiKey}) /\ ChecksumInit(ChecksumPrecisions)

NextChecksum ==
  /\ \/ \E isAsk \in BOOLEAN, price \in AddedPrices :
          ChecksumAddLevel(isAsk, price)
     \/ \E isAsk \in BOOLEAN, place \in EditedPlaces :
          ChecksumRemoveLevel(isAsk, place)
     \/ \E isAsk \in BOOLEAN, place \in EditedPlaces :
          ChecksumChangeLevel(isAsk, place)
  /\ UNCHANGED registryVars
  /\ UNCHANGED managerVars
  /\ UNCHANGED fanoutVars
  /\ UNCHANGED requestVars
  /\ UNCHANGED restVars

SpecChecksum == InitChecksum /\ [][NextChecksum]_vars

\* a client, its ChannelManagers and the frames it receives
InitChannels ==
  ClientInit({FALSE}) /\ ManagerInit /\ FanoutInit({2}) /\ RequestInit
  /\ RestInit({NoApiKey}) /\ ChecksumInit(Precisions)

NextChannels ==
  /\ \/ \E c \in Channels : \E p \in SubscribeParams(c) : Subscribe(c, p)
     \/ \E c \in Channels : \E p \in UnsubscribeParams(c) : Unsubscribe(c, p)
     \/ CreateWebSocket
     \/ OnOpen
     \/ OnClose
     \/ \E data \in Frames : OnMessage(data)
  /\ UNCHANGED managerVars
  /\ UNCHANGED fanoutVars
  /\ UNCHANGED requestVars
  /\ UNCHANGED restVars
  /\ UNCHANGED checksumVars

SpecChannels == InitChannels /\ [][NextChannels]_vars

(***************************************************************************)
(* Properties of the subscription registry.                                *)
(***************************************************************************)
\* the properties of an object as a set: equal for two objects that hold the
\* same properties with the same values, in whatever order they were written
PropertySet(obj) == Range(obj)

NoDuplicates(s) == \A i, j \in 1..Len(s) : s[i] = s[j] => i = j

LastCallReturned(method) == lastOp.op = method /\ lastOp.error = "none"

\* the subscribe calls of the model never create the key of these params
NeverSubscribed(channel, params) ==
  \A p \in SubscribeParams(channel) :
    validateSymbolThrows(symbolArrayOf(p))
      \/ JSONstringify(subscriptionObjectOf(p))
           # JSONstringify(subscriptionObjectOf(params))

\* C1: subscribe calls on one channel whose parameters are equal once symbol
\* and token are removed share a single registry entry, which holds the
\* union of their symbols without duplicates.
C1_EqualParamsShareOneEntry ==
  /\ \A c \in Channels : \A k1, k2 \in DOMAIN subscriptionKeys[c] :
       PropertySet(k1) = PropertySet(k2) => k1 = k2
  /\ \A c \in Channels : \A k \in DOMAIN subscriptionKeys[c] :
       NoDuplicates(subscriptionKeys[c][k])
  /\ LastCallReturned("subscribe") =>
       \E k \in DOMAIN subscriptionKeys[lastOp.channel] :
         /\ PropertySet(k) = PropertySet(subscriptionObjectOf(lastOp.params))
         /\ Range(symbolArrayOf(lastOp.params).items)
              \subseteq Range(subscriptionKeys[lastOp.channel][k])

\* the messages the registries send when the transport opens in this state
Replay == resentSubscribe(subscriptionKeys, keysDefined, 1, wsInfo)

\* the messages of a replay that carry the entry (channel, key)
ReplayOf(msgs, channel, key) ==
  {i \in 1..Len(msgs) :
     /\ msgs[i].method = "subscribe"
     /\ msgs[i].channel = channel
     /\ subscriptionObjectOf(msgs[i].params) = JSONparse(key)}

\* C2: on every transport open each registry sends exactly one subscribe
\* message per live entry, carrying that entry's current symbols; nothing is
\* sent for deleted entries or for channels without an entry.
C2_ReplaySendsDesiredState ==
  lastOp.op = "open" =>
    /\ Len(sent) = NumEntries
    /\ \A i \in 1..Len(sent) :
         /\ sent[i].method = "subscribe"
         /\ JSONstringify(subscriptionObjectOf(sent[i].params))
              \in DOMAIN subscriptionKeys[sent[i].channel]
    /\ \A c \in Channels : \A k \in DOMAIN subscriptionKeys[c] :
         /\ Cardinality(ReplayOf(sent, c, k)) = 1
         /\ \A i \in ReplayOf(sent, c, k) :
              symbolArrayOf(sent[i].params).items = subscriptionKeys[c][k]

C2_Witness ==
  /\ lastOp.op = "open"
  /\ Len(sent) = 2
  /\ \E k \in DOMAIN subscriptionKeys["book"] :
       subscriptionKeys["book"][k] = <<"ETH/USD">>
  /\ \E k \in DOMAIN subscriptionKeys["ticker"] :
       subscriptionKeys["ticker"][k] = <<"ETH/USD">>
  /\ "executions" \in keysDefined

\* C3: an unsubscribe that removes the last symbol of an entry deletes the
\* entry, and no entry emptied by an unsubscribe stays in the registry.
C3_EmptiedEntryIsDeleted ==
  [][\A c \in Channels :
       (lastOp'.op = "unsubscribe" /\ lastOp'.error = "none"
          /\ lastOp'.channel = c) =>
         /\ \A k \in DOMAIN subscriptionKeys[c] :
              (unsubscribeMatches(k, lastOp'.params)
                 /\ Range(subscriptionKeys[c][k])
                      \subseteq Range(symbolArrayOf(lastOp'.params).items))
                => k \notin DOMAIN subscriptionKeys'[c]
         /\ \A k \in DOMAIN subscriptionKeys'[c] :
              unsubscribeMatches(k, lastOp'.params)
                => Len(subscriptionKeys'[c][k]) > 0]_vars

C3_Witness ==
  /\ LastCallReturned("unsubscribe")
  /\ lastOp.channel = "book"
  /\ lastOp.deleted = 2
  /\ DOMAIN subscriptionKeys["book"] = {}

\* unsubscribe every entry of a registry with its key and symbols
RECURSIVE UnsubscribeEach(_, _, _)
UnsubscribeEach(keys, original, order) ==
  IF order = <<>> THEN keys
  ELSE UnsubscribeEach(
         unsubscribeKeys(keys,
                         resubscribeParams(Head(order), original[Head(order)])),
         original, Tail(order))

\* subscribe every entry of the registry original again
RECURSIVE SubscribeEach(_, _, _)
SubscribeEach(keys, original, order) ==
  IF order = <<>> THEN keys
  ELSE SubscribeEach(
         subscribeKeys(keys,
                       resubscribeParams(Head(order), original[Head(order)])),
         original, Tail(order))

UnsubscribedAll(keys) == UnsubscribeEach(keys, keys, KeyOrder(DOMAIN keys))
RoundTrip(keys) ==
  SubscribeEach(UnsubscribedAll(keys), keys, KeyOrder(DOMAIN keys))

\* C4: unsubscribing all symbols of a channel and subscribing the same
\* symbols with the same parameters gives back the same desired state, and
\* so the same replay.
C4_UnsubscribeResubscribeIsIdentity ==
  \A c \in keysDefined :
    /\ DOMAIN UnsubscribedAll(subscriptionKeys[c]) = {}
    /\ RoundTrip(subscriptionKeys[c]) = subscriptionKeys[c]
    /\ sendSubscribeToResubscribe(c, RoundTrip(subscriptionKeys[c]), TRUE, 1,
                                  wsInfo)
         = sendSubscribeToResubscribe(c, subscriptionKeys[c], TRUE, 1, wsInfo)

C4_Witness ==
  /\ Cardinality(DOMAIN subscriptionKeys["book"]) = 2
  /\ \E k \in DOMAIN subscriptionKeys["book"] :
       Len(subscriptionKeys["book"][k]) = 2
  /\ DOMAIN UnsubscribedAll(subscriptionKeys["book"]) = {}
  /\ RoundTrip(subscriptionKeys["book"]) = subscriptionKeys["book"]

SymbolNotAList(params) ==
  HasProp(params, "symbol") /\ ~GetProp(params, "symbol").isArray

\* C5 as stated: a subscribe whose params have no symbol, or a symbol that is
\* not a list, fails and sends nothing.
C5_Original ==
  (lastOp.op = "subscribe"
     /\ (~HasProp(lastOp.params, "symbol") \/ SymbolNotAList(lastOp.params)))
    => (lastOp.error # "none" /\ sent = <<>>)

\* C5: a subscribe whose symbol is present and is not a list fails with an
\* error, changes no entry and sends nothing.
C5_NonListSymbolIsRejected ==
  [][(lastOp'.op = "subscribe" /\ SymbolNotAList(lastOp'.params)) =>
       /\ lastOp'.error = "Error"
       /\ subscriptionKeys' = subscriptionKeys
       /\ keysDefined' = keysDefined
       /\ sent' = <<>>]_vars

C5_Witness ==
  /\ lastOp.op = "subscribe"
  /\ SymbolNotAList(lastOp.params)
  /\ lastOp.error = "Error"
  /\ lastOp.wasOpen
  /\ NumEntries > 0

\* C6: an unsubscribe for a key that was never subscribed on the channel
\* fails with an error.
C6_UnknownKeyIsRejected ==
  (lastOp.op = "unsubscribe" /\ NeverSubscribed(lastOp.channel, lastOp.params))
    => lastOp.error # "none"

\* C7: a subscribe or unsubscribe call updates the desired state; while the
\* transport is open it sends one message of the same method with the call's
\* channel and symbols, otherwise it sends nothing and the next replay
\* reflects the call.
C7_CallSendsOneMessageWhenOpen ==
  (lastOp.op \in {"subscribe", "unsubscribe"} /\ lastOp.error = "none") =>
    LET c == lastOp.channel
        symbols == Range(symbolArrayOf(lastOp.params).items)
        key == JSONstringify(subscriptionObjectOf(lastOp.params))
    IN /\ lastOp.wasOpen =>
            /\ Len(sent) = 1
            /\ sent[1].method = lastOp.op
            /\ sent[1].channel = c
            /\ symbolArrayOf(sent[1].params) = symbolArrayOf(lastOp.params)
            /\ subscriptionObjectOf(sent[1].params) = JSONparse(key)
       /\ ~lastOp.wasOpen => sent = <<>>
       /\ lastOp.op = "subscribe" =>
            /\ key \in DOMAIN subscriptionKeys[c]
            /\ symbols \subseteq Range(subscriptionKeys[c][key])
            /\ \A i \in ReplayOf(Replay, c, key) :
                 symbols \subseteq Range(symbolArrayOf(Replay[i].params).items)
       /\ lastOp.op = "unsubscribe" =>
            \A k \in DOMAIN subscriptionKeys[c] :
              unsubscribeMatches(k, lastOp.params) =>
                /\ symbols \cap Range(subscriptionKeys[c][k]) = {}
                /\ \A i \in ReplayOf(Replay, c, k) :
                     symbols
                       \cap Range(symbolArrayOf(Replay[i].params).items) = {}

C7_Witness ==
  /\ LastCallReturned("unsubscribe")
  /\ ~lastOp.wasOpen
  /\ lastOp.channel = "book"
  /\ sent = <<>>
  /\ \E k \in DOMAIN subscriptionKeys["book"] :
       /\ unsubscribeMatches(k, lastOp.params)
       /\ subscriptionKeys["book"][k] = <<"ETH/USD">>
  /\ "BTC/USD" \in Range(symbolArrayOf(lastOp.params).items)

\* C8: on a client created with authentication every message sent on a
\* private channel carries the token fetched for the connection that is
\* open, never an earlier one, and no stored subscription key holds a token.
C8_PrivateMessagesCarryCurrentToken ==
  /\ isWebSocketPrivate =>
       \A i \in 1..Len(sent) :
         sent[i].channel \in privateSubscriptionChannels =>
           /\ readyState = 1
           /\ tokensIssued > 0
           /\ HasProp(sent[i].params, "token")
           /\ GetProp(sent[i].params, "token")
                = Scalar(TokenNames[tokensIssued])
  /\ \A c \in Channels : \A k \in DOMAIN subscriptionKeys[c] :
       ~HasProp(JSONparse(k), "token")

C8_Witness ==
  /\ lastOp.op = "open"
  /\ tokensIssued = 2
  /\ \E i \in 1..Len(sent) :
       /\ sent[i].channel = "executions"
       /\ sent[i].method = "subscribe"
       /\ GetProp(sent[i].params, "token") = Scalar("token2")

(***************************************************************************)
(* The book of an OrderbookManager.                                        *)
(***************************************************************************)
StrictlyIncreasing(obSide) ==
  \A i \in 1..(Len(obSide) - 1) : obSide[i].price < obSide[i + 1].price

StrictlyDecreasing(obSide) ==
  \A i \in 1..(Len(obSide) - 1) : obSide[i].price > obSide[i + 1].price

NoSharedPrice(obSide) ==
  \A i, j \in 1..Len(obSide) : obSide[i].price = obSide[j].price => i = j

\* the last message was an update with two array sides, applied to a book
UpdateApplied ==
  lastMsg.type = "update" /\ lastMsg.applied /\ ~lastMsg.threw

\* C9: the snapshots of the feed being strictly ordered, the book that an
\* applied batch of incremental changes leaves has its asks strictly
\* increasing by price, its bids strictly decreasing by price, no price twice
\* on a side and at most depth levels on each side.
C9_UpdatesKeepSidesOrderedAndBounded ==
  (UpdateApplied /\ orderbook.defined) =>
    /\ StrictlyIncreasing(orderbook.asks)
    /\ StrictlyDecreasing(orderbook.bids)
    /\ NoSharedPrice(orderbook.asks)
    /\ NoSharedPrice(orderbook.bids)
    /\ Len(orderbook.asks) <= depth
    /\ Len(orderbook.bids) <= depth

\* a batch inserted two asks in front of a snapshot of more than depth levels
\* and one bid behind its best bids; both sides were cut to depth and the
\* book was emitted
C9_Witness ==
  /\ UpdateApplied
  /\ orderbook.defined
  /\ emitted = <<BookEvent(0)>>
  /\ Len(orderbook.asks) = depth
  /\ orderbook.asks[1] = Level(1, 1)
  /\ Len(orderbook.bids) = depth
  /\ orderbook.bids[1].price = 2 * (Depth + 2)

\* C10: after a snapshot the book holds at most depth levels on each side,
\* a snapshot of more levels being cut to depth.
C10_SnapshotIsTruncatedToDepth ==
  (lastMsg.type = "snapshot" /\ orderbook.defined) =>
    /\ Len(orderbook.asks) <= depth
    /\ Len(orderbook.bids) <= depth

\* the levels of a side but the one at index i (counted from 1), in the
\* order they had
WithoutLevel(obSide, i) ==
  SubSeq([j \in 1..(Len(obSide) - 1) |->
            IF j < i THEN obSide[j] ELSE obSide[j + 1]],
         1, Len(obSide) - 1)

\* a batch whose only change gives quantity 0 to the level at index i of a
\* side of the book held
RemovalBatch(isAsk, i) ==
  LET side == IF isAsk THEN orderbook.asks ELSE orderbook.bids
      only == Changes(<<Level(side[i].price, 0)>>)
  IN applyUpdates(orderbook, depth,
                  IF isAsk THEN only ELSE Changes(<<>>),
                  IF isAsk THEN Changes(<<>>) ELSE only,
                  orderbook.checksum)

\* C11: a change of quantity 0 for the price of the level at index i of its
\* side removes that level, the side losing one level and the others keeping
\* their order, and a batch of that change alone has the dirty index i
\* (indices counted from 0 in the program, from 1 in the sequences).
C11_ZeroQuantityRemovesLevel ==
  orderbook.defined =>
    \A isAsk \in BOOLEAN :
      LET side == IF isAsk THEN orderbook.asks ELSE orderbook.bids
      IN \A i \in 1..Len(side) :
           LET r == applyChange(side, isAsk, Level(side[i].price, 0))
               batch == RemovalBatch(isAsk, i)
           IN /\ r.side = WithoutLevel(side, i)
              /\ Len(r.side) = Len(side) - 1
              /\ r.index = i - 1
              /\ ~batch.threw
              /\ batch.minModifiedIndex = i - 1

\* the asks 1, 2, 3 lost the level of price 2 at index 1 to a batch of that
\* change alone, the bids being those of the snapshot, and the book was
\* emitted with the dirty index 1
C11_Witness ==
  /\ UpdateApplied
  /\ orderbook.defined
  /\ orderbook.asks = <<Level(1, 1), Level(3, 2)>>
  /\ orderbook.bids = BidLadder(2)
  /\ emitted = <<BookEvent(1)>>
  /\ minModifiedIndex = 1

\* the checksum the manager computes for a book under an instrument
Digest(ob, inst) ==
  calculateChecksum(ob.asks, ob.bids, inst.price_precision,
                    inst.qty_precision)

\* the step leaves no book, the dirty index 0, nothing emitted and one
\* refresh() of the transport client
Discarded ==
  /\ orderbook' = NoOrderbook
  /\ minModifiedIndex' = 0
  /\ emitted' = <<>>
  /\ refreshed' = 1

\* C12: whenever a verification computes a checksum that differs from the
\* one the feed supplied - for a snapshot, for the book a batch of changes
\* leads to, or for the book held when the first instrument message arrives -
\* the manager discards its book, sets the dirty index to 0, emits no book
\* for that message and asks its transport client for a refresh.
C12_MismatchDiscardsAndRefreshes ==
  [][(isActive /\ ~Discarded) =>
       \* the step is not that of a message whose checksum does not match
       /\ (lastMsg'.type = "snapshot" /\ instrument.defined) =>
            \A n \in SnapshotSizes :
              LET book == Book(AskLadder(n), BidLadder(n), Word(0, 0))
              IN \A c \in WrongChecksums(Digest(book, instrument)) :
                   ~OnOrderbookSnapshot(book.asks, book.bids, c)
       /\ (lastMsg' = Msg("update", TRUE, FALSE) /\ instrument.defined
             /\ orderbook.defined) =>
            \A asks \in AsksUpdates, bids \in BidsUpdates :
              (asks.isArray /\ bids.isArray) =>
                LET u == applyUpdates(orderbook, depth, asks, bids,
                                      Word(0, 0)).orderbook
                IN \A c \in WrongChecksums(Digest(u, instrument)) :
                     ~OnOrderbookUpdate(asks, bids, c)
       /\ (lastMsg' = Msg("instrument", TRUE, FALSE) /\ orderbook.defined)
            => orderbook.checksum = Digest(orderbook, instrument')
    ]_vars

\* a snapshot whose checksum did not match the book it carried was
\* discarded: no book, dirty index 0, nothing emitted, one refresh
C12_Witness ==
  /\ lastMsg.type = "snapshot"
  /\ isActive
  /\ instrument.defined
  /\ ~orderbook.defined
  /\ minModifiedIndex = 0
  /\ emitted = <<>>
  /\ refreshed = 1

\* C13: from a checksum mismatch until a later snapshot gives the manager a
\* book again the book is undefined, and no update is applied in between;
\* the first book emitted after the mismatch, by the repopulating snapshot
\* or after it, has the dirty index 0.
C13_ResyncStartsFromFullBook ==
  [][/\ resync = "discarded" => ~orderbook.defined
     /\ (resync = "discarded" /\ lastMsg'.type = "update")
          => (~lastMsg'.applied /\ orderbook' = orderbook)
     /\ (resync \in {"discarded", "repopulated"}
           /\ \E k \in 1..Len(emitted') : emitted'[k].book)
          => emitted' = <<BookEvent(0)>>
    ]_vars

\* after a mismatch the transport was opened again, a snapshot gave the
\* manager a book before the instrument message, and the instrument message
\* emitted it as the first book after the mismatch, with the dirty index 0
C13_Witness ==
  /\ resync = "resynced"
  /\ lastMsg = Msg("instrument", TRUE, FALSE)
  /\ orderbook.defined
  /\ emitted = <<BookEvent(0)>>
  /\ minModifiedIndex = 0

\* C14: an open of the transport leaves the manager without instrument, so
\* that the next instrument message is a first one; a first instrument
\* message sets the dirty index to 0 and verifies the book the manager
\* holds, whatever the dirty index of the last batch was: the book is emitted
\* with the dirty index 0 if its checksum matches under the instrument and is
\* discarded if not.
C14_FirstInstrumentVerifiesHeldBook ==
  [][/\ lastMsg'.type = "open" => ~instrument'.defined
     /\ (lastMsg'.type = "instrument" /\ ~instrument.defined) =>
          /\ lastMsg'.applied
          /\ minModifiedIndex' = 0
          /\ (orderbook.defined /\ isActive) =>
               IF Digest(orderbook, instrument') = orderbook.checksum
               THEN /\ emitted' = <<BookEvent(0)>>
                    /\ orderbook'.defined
                    /\ orderbook'.asks = orderbook.asks
                    /\ orderbook'.bids = orderbook.bids
                    /\ refreshed' = 0
               ELSE Discarded
    ]_vars

\* a snapshot and a batch of changes arrived before the instrument; the first
\* instrument message verified the changed book and emitted it with the
\* dirty index 0, no checksum having failed before
C14_Witness ==
  /\ lastMsg = Msg("instrument", TRUE, FALSE)
  /\ resync = "synced"
  /\ orderbook.defined
  /\ orderbook.asks[1] = Level(1, 1)
  /\ emitted = <<BookEvent(0)>>
  /\ minModifiedIndex = 0

\* C15: destroy() marks the manager inactive and emits the unavailable
\* notification, and that notification is final: whatever the transport
\* delivers afterwards, the manager emits no orderbook event, book or
\* unavailable.
C15_DestroyNotificationIsFinal ==
  /\ lastMsg.type = "destroy" =>
       (~isActive /\ emitted = <<UnavailableEvent>>)
  /\ (~isActive /\ lastMsg.type # "destroy") => emitted = <<>>

\* C16: a book snapshot, a book update or an instrument message delivered
\* after destroy() is ignored: the manager emits nothing, asks for no
\* refresh and its book stays undefined.
C16_MessagesAfterDestroyAreIgnored ==
  (~isActive /\ lastMsg.type \in {"snapshot", "update", "instrument"}) =>
    /\ emitted = <<>>
    /\ refreshed = 0
    /\ ~orderbook.defined

(***************************************************************************)
(* The fan-out over the OrderbookManagers.                                 *)
(***************************************************************************)
\* the symbol has a manager that has not been torn down
Subscribed(symbol) ==
  /\ orderbookManagers.defined
  /\ orderbookManagers.of[symbol] # 0
  /\ engines[orderbookManagers.of[symbol]].isActive

\* the managers of a symbol
EnginesOf(engs, symbol) == {e \in 1..Len(engs) : engs[e].symbol = symbol}

\* C17: subscribe creates exactly one manager for each symbol of its list
\* that is not subscribed yet, in a later call as in the first and for a
\* list that names a symbol twice, and keeps the managers it had; a
\* subscribe that names a subscribed symbol fails and leaves the managers
\* as they were.
C17_SubscribeCreatesOneEnginePerNewSymbol ==
  [][lastFanout'.op = "subscribe" =>
       LET symbols == lastFanout'.symbols
           named == {symbols[i] : i \in 1..Len(symbols)}
       IN IF \E x \in named : Subscribed(x)
          THEN lastFanout'.error # "none" /\ engines' = engines
          ELSE /\ lastFanout'.error = "none"
               /\ SubSeq(engines', 1, Len(engines)) = engines
               /\ Len(engines') = Len(engines) + Cardinality(named)
               /\ \A x \in named :
                    /\ Cardinality(EnginesOf(engines', x)
                                     \ EnginesOf(engines, x)) = 1
                    /\ orderbookManagers'.of[x] \in
                         EnginesOf(engines', x) \ EnginesOf(engines, x)
    ]_vars

\* C18: unsubscribe tears down and removes the manager of every symbol it
\* names: after a call that returned no named symbol has a manager, a call
\* on a subscription made never fails otherwise than with the not-subscribed
\* error, and nothing that a torn-down manager emits is emitted again.
C18_UnsubscribeRemovesEngine ==
  /\ (lastFanout.op = "unsubscribe" /\ lastFanout.error = "none") =>
       \A i \in 1..Len(lastFanout.symbols) :
         orderbookManagers.of[lastFanout.symbols[i]] = 0
  /\ (lastFanout.op = "unsubscribe" /\ orderbookManagers.defined) =>
       lastFanout.error \in {"none", "NotSubscribed"}
  /\ (lastFanout.op = "orderbook" /\ engines[lastFanout.engine].released) =>
       fanoutEmitted = <<>>

\* C19: an unsubscribe that names a symbol never subscribed, before any
\* subscribe too, fails with the not-subscribed error, tears down no manager
\* and emits nothing.
C19_UnsubscribeUnknownChangesNothing ==
  [][(/\ lastFanout'.op = "unsubscribe"
      /\ \E i \in 1..Len(lastFanout'.symbols) :
           \/ ~orderbookManagers.defined
           \/ orderbookManagers.of[lastFanout'.symbols[i]] = 0)
       => /\ lastFanout'.error = "NotSubscribed"
          /\ engines' = engines
          /\ fanoutEmitted' = <<>>
    ]_vars

\* part holds the first n elements of whole, all of them if there are less
FirstN(part, whole, n) ==
  /\ Len(part) = (IF Len(whole) < n THEN Len(whole) ELSE n)
  /\ \A i \in 1..Len(part) : part[i] = whole[i]

\* C20: with a requested depth n, a book that a manager emits with the dirty
\* index d is emitted again exactly once if d < n, as the first n asks and
\* the first n bids of the manager's book with its symbol and timestamp, and
\* is not emitted at all if d >= n.
C20_BookWithinDepthIsEmittedCut ==
  (lastFanout.op = "orderbook" /\ lastFanout.data # UpstreamUnavailable
     /\ fanoutDepth # NoDepth) =>
    LET data == lastFanout.data[1]
    IN IF data.minModifiedIndex < fanoutDepth
       THEN /\ Len(fanoutEmitted) = 1
            /\ fanoutEmitted[1].book
            /\ DOMAIN fanoutEmitted[1] =
                 {"book", "asks", "bids", "symbol", "timestamp"}
            /\ FirstN(fanoutEmitted[1].asks, data.asks, fanoutDepth)
            /\ FirstN(fanoutEmitted[1].bids, data.bids, fanoutDepth)
            /\ fanoutEmitted[1].symbol = engines[lastFanout.engine].symbol
            /\ fanoutEmitted[1].timestamp = data.timestamp
       ELSE fanoutEmitted = <<>>

\* with the depth 3 requested, a book of 5 levels a side emitted with the
\* dirty index 2 was emitted again with 3 levels a side
C20_Witness ==
  /\ lastFanout.op = "orderbook"
  /\ lastFanout.data # UpstreamUnavailable
  /\ fanoutDepth = Depth
  /\ lastFanout.data[1].minModifiedIndex = Depth - 1
  /\ Len(lastFanout.data[1].asks) = Depth + 2
  /\ Len(fanoutEmitted) = 1
  /\ fanoutEmitted[1].asks = AskLadder(Depth)
  /\ fanoutEmitted[1].bids = SubSeq(BidLadder(Depth + 2), 1, Depth)

\* with the depth 3 requested, a book emitted with the dirty index 3 was
\* not emitted again
C20_WitnessSuppressed ==
  /\ lastFanout.op = "orderbook"
  /\ lastFanout.data # UpstreamUnavailable
  /\ fanoutDepth = Depth
  /\ lastFanout.data[1].minModifiedIndex = Depth
  /\ fanoutEmitted = <<>>

\* C21: when subscribe was called without a depth, every book that a manager
\* emits is emitted again by the fan-out, with all the levels of both sides.
C21_NoDepthEmitsFullBook ==
  (lastFanout.op = "orderbook" /\ lastFanout.data # UpstreamUnavailable
     /\ fanoutDepth = NoDepth) =>
    /\ Len(fanoutEmitted) = 1
    /\ fanoutEmitted[1].book
    /\ fanoutEmitted[1].asks = lastFanout.data[1].asks
    /\ fanoutEmitted[1].bids = lastFanout.data[1].bids

\* the promise that request() returned is in the map under its req_id
PendingRequest(i) ==
  /\ promises[i].resolveCalls = 0
  /\ promises[i].rejectCalls = 0
  /\ requestsCallbacks[promises[i].req_id] = i

\* C24: a pending request is completed at most once, and only by a reply
\* whose req_id is its own, after which the map no longer holds it; no event
\* of the transport resolves or rejects a request, and a reply whose req_id
\* the map does not hold completes nothing.
C24_PendingRequestCompletedOnceByItsReply ==
  [][
      /\ \A i \in 1..Len(promises') :
          /\ promises'[i].resolveCalls + promises'[i].rejectCalls <= 1
          /\ (promises'[i].resolveCalls = 1) =>
               /\ promises'[i].value = promises'[i].req_id
               /\ requestsCallbacks'[promises'[i].req_id] # i
      /\ \A i \in 1..Len(promises) :
           (promises'[i] # promises[i]) =>
             /\ PendingRequest(i)
             /\ lastRequestEvent'.type = "message"
             /\ lastRequestEvent'.req_id = promises[i].req_id
      /\ (lastRequestEvent'.type \in TransportEvents) =>
           UNCHANGED <<promises, requestsCallbacks>>
      /\ (lastRequestEvent'.type = "message"
            /\ requestsCallbacks[lastRequestEvent'.req_id] = NoPromise) =>
           UNCHANGED <<promises, requestsCallbacks>>
  ]_vars

\* one request was resolved by its reply, a second one is still in the map
\* after a reply that the map did not hold and the close of the transport
C24_Witness ==
  /\ Len(promises) = 3
  /\ promises[1].resolveCalls = 1
  /\ promises[1].value = promises[1].req_id
  /\ PendingRequest(2)
  /\ promises[3].rejectCalls = 1
  /\ lastRequestEvent.type = "close"

\* C25: a makeRequest that requires authentication, on a wrapper without an
\* API key, ends with an error and hands no request to axios.
C25_MissingKeyFailsBeforeAnyRequest ==
  [][(lastRest'.op = "makeRequest" /\ lastRest'.requiresAuth
        /\ Falsy(apiKey)) =>
       /\ lastRest'.error # "none"
       /\ lastRest'.error \notin {"ApiError", "RequestFailed"}
       /\ axiosCalls' = axiosCalls
       /\ nonces' = nonces]_vars

\* a wrapper without key has made a public request, and a later POST that
\* requires authentication ended with the error of the missing key
C25_Witness ==
  /\ Falsy(apiKey)
  /\ axiosCalls = 1
  /\ lastRest.op = "makeRequest"
  /\ lastRest.requiresAuth
  /\ lastRest.method = "POST"
  /\ lastRest.error = "NoApiKey"

\* C26: whatever the clock reads, equal and earlier readings included, each
\* nonce a generator returns is greater than all the nonces it returned
\* before.
C26_NoncesStrictlyIncreasing ==
  \A i \in 1..Len(nonces) : \A j \in 1..Len(nonces) :
    (i < j) => (nonces[i] < nonces[j])

\* the clock read 2, 2, 1 and 2 ms: the nonces are 2000, 2001, 2003, 2006
C26_Witness == nonces = <<2000, 2001, 2003, 2006>>

\* the levels of a list that fewer than ChecksumLevels levels of the list
\* have a better price than
TopLevels(list, isAsk) ==
  {list[i] : i \in
     {k \in 1..Len(list) :
        Cardinality({j \in 1..Len(list) :
                       IF isAsk THEN list[j].price < list[k].price
                                ELSE list[j].price > list[k].price})
          < ChecksumLevels}}

\* C27: the checksum depends only on the 10 lowest asks, the 10 highest bids
\* and the precisions: a level added, removed or changed beyond the 10th of a
\* side leaves it as it was; and it is an unsigned number of 32 bits.
C27_ChecksumOfTopTenOnly ==
  [][/\ (/\ TopLevels(checksumAsks', TRUE) = TopLevels(checksumAsks, TRUE)
         /\ TopLevels(checksumBids', FALSE) = TopLevels(checksumBids, FALSE))
          => checksumValue' = checksumValue
     /\ checksumValue'.hi \in 0..65535
     /\ checksumValue'.lo \in 0..65535]_vars

\* an ask above the 11 asks was added and the 11th bid was changed, and the
\* checksum is the one of the first lists
C27_Witness ==
  /\ checksumEdits = 2
  /\ Len(checksumAsks) = ChecksumLevels + 2
  /\ checksumAsks[ChecksumLevels + 2].price = (2 * ChecksumLevels) + 5
  /\ Len(checksumBids) = ChecksumLevels + 1
  /\ checksumBids[ChecksumLevels + 1].qty = 2
  /\ TopLevels(checksumBids, FALSE)
       = TopLevels(BidLadder(ChecksumLevels + 1), FALSE)
  /\ checksumValue =
       calculateChecksum(AskLadder(ChecksumLevels + 1),
                         BidLadder(ChecksumLevels + 1),
                         checksumPrecision[1], checksumPrecision[2])

\* C28: a book update that arrives while the manager holds no book or is
\* not active changes nothing of what the manager holds, emits no event and
\* asks for no refresh.
C28_UpdateWithoutBookOrInactiveIsIgnored ==
  [][(lastMsg'.type = "update" /\ (~orderbook.defined \/ ~isActive)) =>
       /\ UNCHANGED <<depth, orderbook, instrument, isActive,
                      minModifiedIndex, connected>>
       /\ emitted' = <<>>
       /\ refreshed' = 0
       /\ ~lastMsg'.applied]_vars

\* an update reached a manager that had discarded its book on a mismatch
C28_Witness ==
  /\ lastMsg = Msg("update", FALSE, FALSE)
  /\ resync = "discarded"
  /\ instrument.defined
  /\ isActive
  /\ ~orderbook.defined
  /\ minModifiedIndex = 0

\* an update reached a destroyed manager that a later snapshot had given a
\* book
C28_WitnessInactive ==
  /\ lastMsg = Msg("update", FALSE, FALSE)
  /\ ~isActive
  /\ orderbook.defined

RECURSIVE AppliedAt(_, _, _)
\* the indexes at which the changes of a list, taken in order, are applied
\* to a side
AppliedAt(obSide, isAsk, changes) ==
  IF changes = <<>> THEN {}
  ELSE LET r == applyChange(obSide, isAsk, Head(changes))
       IN {r.index} \cup AppliedAt(r.side, isAsk, Tail(changes))

\* the least number of a set of numbers that is not empty
Least(S) == CHOOSE m \in S : \A x \in S : m <= x

\* C29: the dirty index that an update step reports with the book is the
\* least of the indexes at which the changes of the batch, asks and bids,
\* were applied; and a batch without any change emits no book.
C29_DirtyIndexIsLeastAppliedIndex ==
  [][(lastMsg'.type = "update" /\ emitted' # <<>>) =>
       \A asks \in AsksUpdates, bids \in BidsUpdates :
         (/\ asks.isArray
          /\ bids.isArray
          /\ OnOrderbookUpdate(asks, bids, orderbook'.checksum)) =>
           LET indexes == AppliedAt(orderbook.asks, TRUE, asks.items)
                            \cup AppliedAt(orderbook.bids, FALSE, bids.items)
           IN /\ indexes # {}
              /\ emitted'[1].book
              /\ emitted'[1].minModifiedIndex = Least(indexes)]_vars

\* a batch of two bids, applied at the indexes 1 and 2 of a book of two
\* levels a side, was reported with the dirty index 1
C29_Witness ==
  /\ lastMsg = Msg("update", TRUE, FALSE)
  /\ emitted = <<BookEvent(1)>>
  /\ orderbook.asks = AskLadder(2)
  /\ orderbook.bids = <<Level(4, 1), Level(3, 2)>>

\* a batch of two asks, applied at the indexes 1 and 0, was reported with
\* the dirty index 0
C29_WitnessSecondChangeLower ==
  /\ lastMsg = Msg("update", TRUE, FALSE)
  /\ emitted = <<BookEvent(0)>>
  /\ orderbook.asks = <<Level(1, 1), Level(2, 1), Level(3, 2)>>
  /\ orderbook.bids = BidLadder(2)

\* C30: a manager that has just emitted a book holds an instrument and a
\* book and is active, and the checksum computed over the book it emitted is
\* the checksum that the feed sent last.
C30_EmittedBookIsVerified ==
  (emitted # <<>> /\ emitted[1].book) =>
    /\ instrument.defined
    /\ orderbook.defined
    /\ isActive
    /\ Digest(orderbook, instrument) = orderbook.checksum

\* an update of two asks was verified and emitted
C30_Witness ==
  /\ lastMsg = Msg("update", TRUE, FALSE)
  /\ emitted = <<BookEvent(0)>>
  /\ instrument.defined
  /\ isActive
  /\ Len(orderbook.asks) = 3
  /\ Digest(orderbook, instrument) = orderbook.checksum

\* C31: a manager emits a book only if, since the transport opened last, it
\* has received a book snapshot and an instrument message; and a book it holds
\* is one that a snapshot of the present connection gave it.
C31_NoBookBeforeSnapshotAndInstrument ==
  /\ (emitted # <<>> /\ emitted[1].book) =>
       (sinceOpen.snapshot /\ sinceOpen.instrument)
  /\ orderbook.defined => (sinceOpen.snapshot /\ connected)
  /\ lastMsg.type = "open" => (~orderbook.defined /\ ~instrument.defined)

\* a manager that had emitted books on an earlier connection has, on the
\* present one, a snapshot and no instrument message yet, and emitted nothing
C31_Witness ==
  /\ resync = "resynced"
  /\ lastMsg.type = "snapshot"
  /\ sinceOpen.snapshot
  /\ ~sinceOpen.instrument
  /\ orderbook.defined
  /\ emitted = <<>>

\* C32: an update whose asks or bids are not an array, reaching an active
\* manager that holds a book, is handled without an exception: the book is
\* discarded, one refresh of the transport is asked for and nothing is
\* emitted.
C32_NonArraySideDiscardsWithoutFailure ==
  [][\A asks \in AsksUpdates, bids \in BidsUpdates :
       (/\ ~asks.isArray \/ ~bids.isArray
        /\ orderbook.defined
        /\ isActive
        /\ OnOrderbookUpdate(asks, bids, Word(0, 0))) =>
         /\ ~lastMsg'.threw
         /\ orderbook' = NoOrderbook
         /\ refreshed' = 1
         /\ emitted' = <<>>]_vars

\* C33: a frame that cannot be parsed is dropped: its handler ends without
\* an exception, and the state of the transport, the subscription entries
\* and the attached listeners are as before.
C33_UnparsableFrameIsDropped ==
  [][OnMessage(UnparsableFrame) =>
       /\ lastOp'.error = "none"
       /\ UNCHANGED <<readyState, subscriptionKeys, keysDefined, listening>>
       /\ published' = <<>>]_vars

\* the channel that a frame is tagged with or that it acknowledges
TaggedChannel(data) ==
  IF data.channel # Undefined THEN data.channel ELSE data.result

C35_DetachOnlyOnOwnLastUnsubscribe ==
  [][\A c \in Channels :
       (c \in listening /\ c \notin listening') =>
         /\ \E top \in BOOLEAN : OnMessage(AckFrame("unsubscribe", c, top))
         /\ DOMAIN subscriptionKeys[c] = {}]_vars

\* C36: when a manager has no subscription entry left and an unsubscribe
\* acknowledgement has taken its listeners off, a subscribe call that
\* succeeds attaches them again.
C36_SubscribeAttachesListenersAgain ==
  [][\A c \in Channels :
       (/\ c \in keysDefined
        /\ DOMAIN subscriptionKeys[c] = {}
        /\ c \notin listening
        /\ lastOp' = Op("subscribe", c, lastOp'.params, "none",
                        readyState = 1, 0)) =>
         c \in listening']_vars

\* C39: an instrument message whose pairs do not hold the manager's symbol
\* leaves the instrument of the manager as it was.
C39_OtherPairsLeaveInstrument ==
  [][UpdateInstrumentOtherPairs => instrument' = instrument]_vars


\* the levels of a side that have the quantity 0
EmptiedLevels(side) == {i \in 1..Len(side) : side[i].qty = 0}

\* C38: a batch of incremental changes that is applied, without failure, to a
\* book without a level of quantity 0 leaves a book without a level of
\* quantity 0 on its asks and on its bids, the batch having named with
\* quantity 0 a price of the book or a price that is not in it.
C38_NoEmptiedLevelAfterBatch ==
  [][(/\ orderbook.defined
      /\ ~lastMsg.threw
      /\ EmptiedLevels(orderbook.asks) = {}
      /\ EmptiedLevels(orderbook.bids) = {}
      /\ lastMsg' = Msg("update", TRUE, FALSE)
      /\ orderbook'.defined) =>
       /\ EmptiedLevels(orderbook'.asks) = {}
       /\ EmptiedLevels(orderbook'.bids) = {}
    ]_vars

\* C37: a batch of incremental changes after which the book is emitted with
\* the dirty index d leaves the first d levels of the asks and of the bids,
\* those at the indices 0 .. d - 1, with the prices and quantities they had
\* before the batch.
C37_LevelsBelowDirtyIndexUntouched ==
  [][(/\ lastMsg' = Msg("update", TRUE, FALSE)
      /\ orderbook.defined
      /\ emitted' # <<>>
      /\ emitted'[1].book) =>
       LET d == emitted'[1].minModifiedIndex
       IN /\ d >= 0
          /\ orderbook'.defined
          /\ Slice(orderbook'.asks, d) = Slice(orderbook.asks, d)
          /\ Slice(orderbook'.bids, d) = Slice(orderbook.bids, d)
    ]_vars

====
